---- MODULE Spec2Model ----
(***************************************************************************)
(* The turn-processing core of the Sentellent agent: the LangGraph routing *)
(* graph (planner, execute, check, codegen, security, sandbox, respond),   *)
(* the tool executor with its confirmation gate, and the durable           *)
(* pending_actions / pending_intents / memories tables, for one user       *)
(* served by up to two request workers.                                    *)
(*                                                                         *)
(* Texts are kept as the sequence of their whitespace-separated tokens.    *)
(* Response and error texts are kept by a short label; "" is the empty     *)
(* text.  A specification keeps tool_results, the running history, in full *)
(* or keeps of it what the program reads: whether it is empty and its      *)
(* latest listing of events.                                               *)
(* Mutations a routing function makes on the state are kept, as the code   *)
(* of graph.py intends them.                                               *)
(***************************************************************************)
EXTENDS Integers, Sequences, FiniteSets, TLC

\* ------------------------------------------------------------------ bounds

\* Requests served in one run of the model.
MaxTurns == 2

\* Requests served in one run of the model with two workers.
MaxRaceTurns == 3

\* Requests served in the specification of the tool calls.
MaxToolTurns == 2

\* Requests served in the specifications of delete-by-title.
MaxDeleteTurns == 2

\* Requests served in the specification that keeps the history in full.
MaxHistoryTurns == 2

\* Requests in the specification that starts at the execute stage, the one
\* it starts in counted.
MaxExecTurns == 2

\* Requests served in the specification of the confirmation syntax.
MaxConfirmTurns == 3

\* Requests served in the specification of the datetime-extraction lane.
MaxLaneTurns == 3

\* Requests served in the specification of the clarification turns.
MaxClarifyTurns == 3

\* Requests served in the specification of the staged actions.
MaxStagingTurns == 3

\* Requests served in the specification of the bare replies.
MaxBareTurns == 2

\* Requests served in the specification of the planner's hard stop.
MaxHardStopTurns == 2

\* ----------------------------------------------------- program constants

PlannerHardStop == 5
CheckerHardStop == 5
ExtractRetryLimit == 5
SandboxRetryLimit == 5

\* Python's None, for a field that otherwise holds a record.
None == [none |-> TRUE]
\* Python's None, for a field that otherwise holds a text label.
NoneStr == "None"

Procs == {1, 2}
User == "u1"

\* ------------------------------------------------------------------- texts

\* str.lower() on one token.
Lower(t) ==
    CASE t = "CONFIRMATION:" -> "confirmation:"
      [] t = "Standup" -> "standup"
      [] t = "Delete" -> "delete"
      [] t = "Team" -> "team"
      [] t = "Lunch" -> "lunch"
      [] OTHER -> t

\* The word the regex \b...\b sees in a lowered token: punctuation around
\* the word characters is no part of the word.
Word(t) ==
    CASE t = "confirmation:" -> "confirmation"
      [] t = "/confirm" -> "confirm"
      [] t = "no." -> "no"
      [] t = "yes." -> "yes"
      [] OTHER -> t

\* re.sub(r"[.!?...]+$", "", t): trailing punctuation of the last token.
StripTrailing(t) ==
    CASE t = "no." -> "no"
      [] t = "yes." -> "yes"
      [] OTHER -> t

LowerAll(raw) == [i \in 1..Len(raw) |-> Lower(raw[i])]
WordsOf(raw) == [i \in 1..Len(raw) |-> Word(Lower(raw[i]))]

\* re.search of an alternation of phrases: some phrase occurs at some place.
ContainsPhrase(ws, phrases) ==
    \E p \in phrases : \E i \in 1..Len(ws) :
        /\ i + Len(p) - 1 <= Len(ws)
        /\ SubSeq(ws, i, i + Len(p) - 1) = p

YesPhrases ==
    {<<"yes">>, <<"y">>, <<"confirm">>, <<"approved">>, <<"ok">>, <<"okay">>,
     <<"sure">>, <<"do", "it">>, <<"go", "ahead">>, <<"proceed">>, <<"send", "it">>}

NoPhrases ==
    {<<"no">>, <<"n">>, <<"cancel">>, <<"stop">>, <<"dont">>, <<"don't">>,
     <<"nevermind">>, <<"never", "mind">>}

_parse_confirmation(raw) ==
    IF ContainsPhrase(WordsOf(raw), YesPhrases) THEN "yes"
    ELSE IF ContainsPhrase(WordsOf(raw), NoPhrases) THEN "no"
    ELSE "unknown"

BarePhrases ==
    {<<"yes">>, <<"y">>, <<"yeah">>, <<"yep">>, <<"confirm">>, <<"ok">>, <<"okay">>,
     <<"sure">>, <<"do", "it">>, <<"send", "it">>, <<"go", "ahead">>, <<"proceed">>,
     <<"no">>, <<"n">>, <<"nope">>, <<"cancel">>, <<"stop">>, <<"don't">>, <<"dont">>,
     <<"nevermind">>, <<"never", "mind">>}

_looks_like_yes_no_only(raw) ==
    /\ Len(raw) > 0
    /\ LET low == LowerAll(raw)
           t == [low EXCEPT ![Len(low)] = StripTrailing(low[Len(low)])]
       IN  t \in BarePhrases

\* The test for the marker alone.
is_confirm_like_marker_only(raw) ==
    \E i \in 1..Len(raw) : Lower(raw[i]) = "confirmation:"

\* ("confirmation:" in low) or ("/confirm" in low)
is_confirm_like(raw) ==
    \E i \in 1..Len(raw) : Lower(raw[i]) \in {"confirmation:", "/confirm"}

\* _EMAIL_RE.search(raw): the tokens of the vocabulary that are addresses.
IsEmailAddress(t) == t \in {"a@b.co"}

HasAdjacent(low, a, b) ==
    \E i \in 1..Len(low) : i < Len(low) /\ low[i] = a /\ low[i + 1] = b

HasToken(low, a) == \E i \in 1..Len(low) : low[i] = a

_looks_like_send_email_request(raw) ==
    LET low == LowerAll(raw)
        hasAddr == \E i \in 1..Len(raw) : IsEmailAddress(raw[i])
    IN  \/ HasAdjacent(low, "send", "email")
        \/ HasAdjacent(low, "send", "mail")
        \/ HasAdjacent(low, "compose", "email")
        \/ \E i \in 1..Len(low) : i < Len(low) /\ low[i] \in {"email", "mail"} /\ low[i + 1] = "to"
        \/ (HasToken(low, "subject") \/ HasToken(low, "body")) /\ hasAddr
        \/ HasToken(low, "send") /\ hasAddr

\* None when no address is found, else the arguments of gmail_send.
_extract_send_email_args(raw) ==
    IF \E i \in 1..Len(raw) : IsEmailAddress(raw[i])
    THEN [to_email |-> (CHOOSE t \in {raw[i] : i \in 1..Len(raw)} : IsEmailAddress(t))]
    ELSE None

\* _looks_like_important_email_request: not a send request, and a strong
\* signal or a listing verb with an email noun.
_looks_like_important_email_request(raw) ==
    LET low == LowerAll(raw)
    IN  /\ ~_looks_like_send_email_request(raw)
        /\ \/ \E k \in {"important", "starred", "flagged"} : HasToken(low, k)
           \/ /\ \E v \in {"show", "list", "display", "fetch", "get", "see"} : HasToken(low, v)
              /\ \E n \in {"email", "emails", "inbox", "mail", "messages"} : HasToken(low, n)
              /\ ~HasAdjacent(low, "email", "me")
              /\ ~HasAdjacent(low, "mail", "me")

\* _is_no_meetings_before_pref: one of the phrases occurs in the lowered text.
_is_no_meetings_before_pref(raw) ==
    ContainsPhrase(LowerAll(raw),
        {<<"no", "meetings", "before">>, <<"dont", "schedule", "meetings", "before">>,
         <<"don't", "schedule", "meetings", "before">>,
         <<"do", "not", "schedule", "meetings", "before">>,
         <<"no", "meeting", "before">>, <<"no", "events", "before">>,
         <<"no", "calendar", "before">>})

\* _is_default_meeting_minutes_pref
_is_default_meeting_minutes_pref(raw) ==
    ContainsPhrase(LowerAll(raw),
        {<<"default", "meeting", "minutes">>, <<"default", "meetings", "to">>,
         <<"default", "my", "meetings", "to">>, <<"set", "default", "meeting", "duration">>,
         <<"default", "meeting", "duration">>})

\* A preference value "HH:MM" is kept as the parts str.split(":") gives, a
\* part being the integer int() reads or "nan" when int() raises.
HHMM(hh, mm) == <<hh, mm>>

\* The time tokens of the vocabulary, as _TIME_HHMM_24H / _TIME_H_12H / the
\* bare hour pattern read them.
TimeOfToken(t) ==
    CASE t = "9" -> HHMM(9, 0)
      [] t = "10:30" -> HHMM(10, 30)
      [] t = "9am" -> HHMM(9, 0)
      [] OTHER -> <<>>

\* _normalize_time_to_hhmm: the first time found in the text, <<>> (None)
\* when there is none.
_normalize_time_to_hhmm(raw) ==
    LET low == LowerAll(raw)
        at == {i \in 1..Len(low) : TimeOfToken(low[i]) # <<>>}
    IN  IF at = {} THEN <<>>
        ELSE TimeOfToken(low[CHOOSE i \in at : \A j \in at : i <= j])

\* _extract_int_minutes: a number of minutes between 5 and 480.
_extract_int_minutes(raw) ==
    LET low == LowerAll(raw)
    IN  IF HasToken(low, "45") THEN <<45>> ELSE <<>>

DeleteVerbs == {"delete", "remove", "cancel"}

TitleStops == {"which", "that", "scheduled", "tomorrow", "today", "on"}

\* _extract_delete_title: the words after the first delete/remove/cancel up
\* to the first stop word; <<>> (None) when there are none.
_extract_delete_title(raw) ==
    LET low == LowerAll(raw)
        verbs == {i \in 1..Len(low) : low[i] \in DeleteVerbs}
    IN  IF verbs = {} THEN <<>>
        ELSE LET v == CHOOSE i \in verbs : \A j \in verbs : i <= j
                 rest == SubSeq(raw, v + 1, Len(raw))
                 stops == {i \in 1..Len(rest) : Lower(rest[i]) \in TitleStops}
                 cand == IF stops = {} THEN rest
                         ELSE SubSeq(rest, 1, (CHOOSE i \in stops : \A j \in stops : i <= j) - 1)
             IN  cand

\* _match_events_by_title taking every event that has a title.
_match_events_by_title_any(events, title) ==
    IF title = <<>>
    THEN <<>>
    ELSE SelectSeq(events, LAMBDA e : e.summary # <<>>)

\* _match_events_by_title taking the events with the very title.
_match_events_by_title_equal(events, title) ==
    IF title = <<>>
    THEN <<>>
    ELSE SelectSeq(events, LAMBDA e : LowerAll(e.summary) = LowerAll(title))

\* _match_events_by_title: the events whose lowered summary equals or
\* contains the lowered title, in the order of the listing.
_match_events_by_title(events, title) ==
    IF title = <<>>
    THEN <<>>
    ELSE SelectSeq(events,
             LAMBDA e : /\ e.summary # <<>>
                        /\ ContainsPhrase(LowerAll(e.summary), {LowerAll(title)}))

\* The messages of the model.
MsgConfirmYes == <<"CONFIRMATION:", "yes">>
MsgConfirmNo == <<"CONFIRMATION:", "no">>
MsgSlashNo == <<"/confirm", "no">>
MsgConfirmMaybe == <<"CONFIRMATION:", "maybe">>
MsgSendEmail == <<"send", "email", "to", "a@b.co", "subject", "hi">>
MsgSchedule == <<"schedule", "sync", "tomorrow">>
MsgList == <<"list", "my", "meetings", "tomorrow">>
MsgDelete == <<"Delete", "Standup">>
MsgDeleteTomorrow == <<"delete", "standup", "tomorrow">>
MsgNoMeetings == <<"no", "meetings", "before", "9">>
MsgNoMeetingsWhen == <<"no", "meetings", "before", "lunch">>
MsgDefaultMinutes == <<"default", "my", "meetings", "to", "45", "minutes">>
MsgImportant == <<"show", "important", "emails">>

ChatMessages ==
    {MsgConfirmYes, MsgConfirmNo, MsgSlashNo, MsgConfirmMaybe,
     <<"yes">>, <<"nope">>, MsgSendEmail, MsgSchedule}

\* What the confirm endpoint is called with: the decision token and the
\* optional free-text instruction.
ConfirmTokens == {"yes", "no"}
Instructions == {<<>>, <<"send", "it", "later">>}

\* f"{confirmation}." : the token followed by the full stop of ". {instruction}".
WithStop(t) == IF t = "no" THEN "no." ELSE IF t = "yes" THEN "yes." ELSE t

\* msg = f"CONFIRMATION: {req.confirmation}" [+ f". {req.instruction}"]
ConfirmMessage(confirmation, instruction) ==
    IF instruction = <<>>
    THEN <<"CONFIRMATION:", confirmation>>
    ELSE <<"CONFIRMATION:", WithStop(confirmation)>> \o instruction

\* ------------------------------------------------------- durable tables

\* A table is the sequence of its rows; user_id is the primary key.
RowsOf(tbl, u) == SelectSeq(tbl, LAMBDA r : r.user_id = u)

\* db.query(T).filter(T.user_id == user_id).first()
first(tbl, u) == IF RowsOf(tbl, u) = <<>> THEN None ELSE Head(RowsOf(tbl, u))

\* INSERT with no primary-key constraint on user_id.
DbInsertNoKey(tbl, u, val) ==
    [ok |-> TRUE, tbl |-> Append(tbl, [user_id |-> u, val |-> val])]

\* db.add(row); db.commit(): user_id is the primary key, so a second row
\* for the same user is refused (IntegrityError).
DbInsert(tbl, u, val) ==
    IF RowsOf(tbl, u) # <<>>
    THEN [ok |-> FALSE, tbl |-> tbl]
    ELSE [ok |-> TRUE, tbl |-> Append(tbl, [user_id |-> u, val |-> val])]

\* An UPDATE that commits and leaves the stored value as it was.
DbUpdateKeep(tbl, u, val) ==
    IF RowsOf(tbl, u) = <<>>
    THEN [ok |-> FALSE, tbl |-> tbl]
    ELSE [ok |-> TRUE, tbl |-> tbl]

\* row.x = payload; db.commit(): the UPDATE addresses the row by its key and
\* fails when the row is gone (StaleDataError).
DbUpdate(tbl, u, val) ==
    IF RowsOf(tbl, u) = <<>>
    THEN [ok |-> FALSE, tbl |-> tbl]
    ELSE [ok |-> TRUE,
          tbl |-> [i \in 1..Len(tbl) |->
                     IF tbl[i].user_id = u THEN [tbl[i] EXCEPT !.val = val] ELSE tbl[i]]]

\* db.delete(row); db.commit(): a no-op when no row is there.
DbDelete(tbl, u) == SelectSeq(tbl, LAMBDA r : r.user_id # u)

get_pending_action(tbl, u) == IF first(tbl, u) = None THEN None ELSE first(tbl, u).val

get_pending_intent(tbl, u) == IF first(tbl, u) = None THEN None ELSE first(tbl, u).val

\* clear_pending_action that deletes no row.
clear_pending_action_no_delete(tbl, u) == tbl

clear_pending_action(tbl, u) == DbDelete(tbl, u)

\* clear_pending_intent that deletes no row.
clear_pending_intent_no_delete(tbl, u) == tbl

clear_pending_intent(tbl, u) == DbDelete(tbl, u)

\* ------------------------------------------------------------ turn state

\* The start time of an event as datetime.fromisoformat reads start_iso:
\* whether it parses, and its hour and minute.
StartAt(hour, minute) == [parsed |-> TRUE, hour |-> hour, minute |-> minute]
Unparsed == [parsed |-> FALSE, hour |-> 0, minute |-> 0]

\* A plan entry {tool, args}.  args_ok: the scalar arguments the tool needs
\* (start_iso and end_iso, time_min and time_max, event_id and patch,
\* to_email, key and value) are there and not empty.  ids_kind, ids: whether
\* event_ids is a list, is missing ("none") or is something else, and the
\* items of the list ("" a blank one).  start: the start time the call sets,
\* None when it sets none.  key, value: the arguments of memory_upsert.
ToolCall(tool, raw) ==
    [tool |-> tool, raw |-> raw, args_ok |-> TRUE,
     ids_kind |-> IF tool = "calendar_delete_events" THEN "list" ELSE "none",
     ids |-> IF tool = "calendar_delete_events" THEN <<"e1">> ELSE <<>>,
     start |-> IF tool = "calendar_prepare_event" THEN StartAt(10, 0) ELSE None,
     key |-> IF tool = "memory_upsert" THEN "default_meeting_minutes" ELSE NoneStr,
     value |-> IF tool = "memory_upsert" THEN <<45>> ELSE <<>>]

\* A result {tool, ok, error, result}; events is the list in the result of
\* calendar_list_events.
ToolResult(tool, ok, error, result) ==
    [tool |-> tool, ok |-> ok, error |-> error, result |-> result,
     already_handled |-> FALSE, events |-> <<>>]

\* An event of the calendar as list_events returns it.
Event(id, summary) == [id |-> id, summary |-> summary]

\* The memories table of the user: the value per preference key, <<>> when
\* the key has no row.
NoMemories == [no_meetings_before |-> <<>>, default_meeting_minutes |-> <<>>]

PrefKeys == {"no_meetings_before", "default_meeting_minutes"}

\* upsert_memory: the row of the key is updated or inserted.
upsert_memory(mem, key, value) == [mem EXCEPT ![key] = value]

\* load_memories: the rows of the user as a mapping.
load_memories(mem) == mem

\* The code fragment of the extract_datetime template: whether it parses, the
\* roots it imports, the names it calls and the attributes it reads.
TemplateCode ==
    [parses |-> TRUE,
     imports |-> {"json", "datetime", "pytz", "dateparser"},
     calls |-> {"print", "timedelta", "search_dates"},
     attrs |-> {"timezone", "isalnum", "isspace", "join", "split", "parse",
                "dumps", "astimezone", "isoformat"}]

\* main._build_initial_state, with the two lane fields as the caller sets them.
_build_initial_state(message, memories, pending_action, pending_intent, extract) ==
    [input |-> message,
     memories |-> memories,
     pending_action |-> pending_action,
     pending_intent |-> pending_intent,
     plan |-> <<>>,
     tool_results |-> <<>>,
     last_tool_results |-> <<>>,
     needs_more |-> FALSE,
     iterations |-> 0,
     response |-> "",
     options |-> <<>>,
     fallback_needed |-> FALSE,
     code_attempts |-> 0,
     generated_code |-> None,
     code_error |-> NoneStr,
     code_result |-> None,
     time_extraction_needed |-> extract,
     code_task |-> IF extract THEN "extract_datetime" ELSE NoneStr,
     pending_intent_op |-> NoneStr,
     pending_intent_out |-> None]

\* ---------------------------------------------------------------- planner

ALLOWED_TOOLS ==
    {"handle_confirmation", "gmail_list_important", "gmail_send",
     "calendar_prepare_event", "calendar_list_events", "calendar_get_event",
     "calendar_update_event", "calendar_delete_events", "memory_upsert"}

\* _pending_original_request that returns the request of this turn.
_pending_original_request_raw(s, raw) == raw

\* _pending_original_request
_pending_original_request(s, raw) ==
    IF s.pending_intent # None /\ s.pending_intent.original_request # <<>>
    THEN s.pending_intent.original_request
    ELSE raw

\* _looks_like_upcoming_list_request
_looks_like_upcoming_list_request(raw) ==
    LET low == LowerAll(raw)
    IN  \/ /\ HasToken(low, "upcoming") \/ HasToken(low, "next")
           /\ \E n \in {"meeting", "meetings", "events", "calendar"} : HasToken(low, n)
        \/ low \in {<<"list", "them">>, <<"list", "it">>, <<"show", "them">>, <<"show", "it">>}

\* _events_from_last_tool_results: the events of the latest successful
\* calendar_list_events result of the history that has any.
_events_from_last_tool_results(s) ==
    LET h == s.tool_results
        at == {i \in 1..Len(h) :
                  h[i].tool = "calendar_list_events" /\ h[i].ok /\ h[i].events # <<>>}
    IN  IF at = {} THEN <<>>
        ELSE h[CHOOSE i \in at : \A j \in at : j <= i].events

\* The error _final_validate finds in one call, "" when it finds none.
ValidationError(c) ==
    CASE c.tool = "calendar_prepare_event" /\ ~c.args_ok -> "no_exact_date_time"
      [] c.tool = "calendar_list_events" /\ ~c.args_ok -> "no_time_window"
      [] c.tool = "calendar_get_event" /\ ~c.args_ok -> "missing_event_id"
      [] c.tool = "calendar_update_event" /\ ~c.args_ok -> "missing_event_id_or_patch"
      [] c.tool = "calendar_delete_events"
           /\ (c.ids_kind # "list" \/ \E k \in 1..Len(c.ids) : c.ids[k] = "") -> "missing_event_ids"
      [] c.tool = "gmail_send" /\ ~c.args_ok -> "MISSING_TO_EMAIL"
      [] c.tool = "memory_upsert" /\ ~c.args_ok -> "MISSING_PREF_VALUE"
      [] OTHER -> ""

\* _final_validate: calls of tools outside ALLOWED_TOOLS are dropped; the
\* first call with an error empties the plan.
_final_validate(plan) ==
    LET allowed == SelectSeq(plan, LAMBDA c : c.tool \in ALLOWED_TOOLS)
        bad == {k \in 1..Len(allowed) : ValidationError(allowed[k]) # ""}
    IN  IF bad = {}
        THEN [plan |-> allowed, err |-> ""]
        ELSE [plan |-> <<>>,
              err |-> ValidationError(allowed[CHOOSE k \in bad : \A m \in bad : k <= m])]

\* Every hit, by its summary.
FirstAll(hits) == [k \in 1..Len(hits) |-> hits[k].summary]

\* hits[:5], by their summaries
FirstFive(hits) ==
    [k \in 1..(IF Len(hits) < 5 THEN Len(hits) ELSE 5) |-> hits[k].summary]

\* planner(state), its first lines: the fields of the last turn are reset.
_planner_reset(s) ==
    [s EXCEPT !.plan = <<>>, !.needs_more = FALSE, !.response = "",
              !.options = <<>>,
              !.pending_intent_op = NoneStr, !.pending_intent_out = None]

\* planner(state) asks the user: the question is shown and saved as the
\* pending intent.
_planner_asking(s, q, shown) ==
    [_planner_reset(s) EXCEPT
        !.needs_more = TRUE, !.response = shown,
        !.pending_intent_op = "save",
        !.pending_intent_out =
            [original_request |-> _pending_original_request(s, s.input),
             last_question |-> q]]

\* planner(state) plans and leaves the pending intent as it is.
_planner_planning_keep(s, p) == [_planner_reset(s) EXCEPT !.plan = p]

\* planner(state) plans: the plan is set and the pending intent is cleared.
_planner_planning(s, p) ==
    [_planner_reset(s) EXCEPT !.plan = p, !.pending_intent_op = "clear"]

\* planner(state) up to its call of the planning oracle: the state the first
\* rule that applies returns, as a sequence of one state, and <<>> when no
\* rule applies.
planner_rules(s) ==
    LET raw == s.input
        low == LowerAll(raw)
        s0 == _planner_reset(s)
        del_title == _extract_delete_title(raw)
        hits == _match_events_by_title(_events_from_last_tool_results(s), del_title)
    IN  IF is_confirm_like(raw)
        THEN <<[s0 EXCEPT !.plan = <<ToolCall("handle_confirmation", raw)>>]>>
        ELSE IF s.pending_action # None /\ _looks_like_yes_no_only(raw)
        THEN <<[s0 EXCEPT !.plan = <<ToolCall("handle_confirmation", raw)>>]>>
        ELSE IF s.pending_action # None
        THEN <<s0>>
        ELSE IF _looks_like_send_email_request(raw) /\ _extract_send_email_args(raw) # None
        THEN <<_planner_planning(s, <<ToolCall("gmail_send", <<>>)>>)>>
        ELSE IF _looks_like_important_email_request(raw)
        THEN <<_planner_planning(s, <<ToolCall("gmail_list_important", <<>>)>>)>>
        ELSE IF _is_no_meetings_before_pref(raw)
        THEN IF _normalize_time_to_hhmm(raw) # <<>>
             THEN <<_planner_planning(s, <<[ToolCall("memory_upsert", <<>>)
                                              EXCEPT !.key = "no_meetings_before",
                                                     !.value = _normalize_time_to_hhmm(raw)]>>)>>
             ELSE <<_planner_asking(s, "what_time_should_i_use", "what_time_should_i_use")>>
        ELSE IF _is_default_meeting_minutes_pref(raw) /\ _extract_int_minutes(raw) # <<>>
        THEN <<_planner_planning(s, <<[ToolCall("memory_upsert", <<>>)
                                         EXCEPT !.key = "default_meeting_minutes",
                                                !.value = _extract_int_minutes(raw)]>>)>>
        ELSE IF del_title # <<>>
        THEN IF Len(hits) = 1 /\ hits[1].id # ""
             THEN <<_planner_planning(s, <<[ToolCall("calendar_delete_events", <<>>)
                                              EXCEPT !.ids = <<hits[1].id>>]>>)>>
             ELSE IF Len(hits) > 1
             THEN <<[_planner_asking(s, "which_one_should_i_delete", "which_one_should_i_delete")
                        EXCEPT !.options = FirstFive(hits)]>>
             ELSE IF HasToken(low, "tomorrow")
             THEN <<[s0 EXCEPT !.plan = <<ToolCall("calendar_list_events", <<>>)>>,
                               !.pending_intent_op = "save",
                               !.pending_intent_out =
                                   [original_request |-> _pending_original_request(s, raw),
                                    last_question |-> "which_event_should_i_delete"]]>>
             ELSE <<_planner_asking(s, "list_your_meetings_first", "list_your_meetings_first")>>
        ELSE <<>>

\* The except clause of planner asking for one more planner cycle.
planner_except_needs_more(s) == [_planner_reset(s) EXCEPT !.needs_more = TRUE]

\* planner(state), its except clause: the error is reported as the response.
planner_except(s) == [_planner_reset(s) EXCEPT !.response = "planner_error"]

\* planner(state) from its call of the planning oracle on.  ans is what the
\* oracle answers: kind "error" (a call or a parse raised), "question"
\* (needs_more) or "plan" (the plan as _repair_calendar_args leaves it,
\* possibly empty, and the oracle's text); repaired tells whether the second
\* call, made for a missing recipient or preference value, gave the missing
\* arguments.
planner_oracle(s, ans) ==
    LET v == _final_validate(ans.plan)
    IN  CASE ans.kind = "error" ->
                planner_except(s)
          [] ans.kind = "question" ->
                _planner_asking(s, ans.response,
                                IF ans.response = "" THEN "need_one_more_detail"
                                ELSE ans.response)
          [] v.err = "MISSING_PREF_VALUE" ->
                IF ans.repaired
                THEN _planner_planning(s, <<ToolCall("memory_upsert", <<>>)>>)
                ELSE _planner_asking(s, "what_time_should_i_use", "what_time_should_i_use")
          [] v.err = "MISSING_TO_EMAIL" ->
                IF ans.repaired
                THEN _planner_planning(s, <<ToolCall("gmail_send", <<>>)>>)
                ELSE _planner_asking(s, "what_email_address", "what_email_address")
          [] v.err # "" ->
                _planner_asking(s, v.err, v.err)
          [] v.plan = <<>> /\ _looks_like_upcoming_list_request(s.input) ->
                _planner_planning(s, <<ToolCall("calendar_list_events", <<>>)>>)
          [] OTHER ->
                IF v.plan # <<>>
                THEN _planner_planning(s, v.plan)
                ELSE [_planner_reset(s) EXCEPT !.response =
                          IF ans.response = "" THEN "tell_me_what_you_want"
                          ELSE ans.response]

\* planner(state): the rules, and the planning oracle when no rule applies.
planner(s, ans) ==
    LET ruled == planner_rules(s)
    IN  IF ruled # <<>> THEN ruled[1] ELSE planner_oracle(s, ans)

\* ------------------------------------------------------------ graph nodes

_planner_node(s, ans) ==
    IF s.iterations >= PlannerHardStop
    THEN [s EXCEPT !.needs_more = FALSE, !.fallback_needed = FALSE,
                   !.response = IF @ = "" THEN "stuck" ELSE @]
    ELSE planner(s, ans)

\* _route_after_planner without its rules for an empty plan.
_route_after_planner_no_empty_rule(s) ==
    IF s.needs_more /\ s.response # ""
    THEN [next |-> "respond", state |-> s]
    ELSE IF s.time_extraction_needed
    THEN [next |-> "codegen", state |-> s]
    ELSE [next |-> "execute", state |-> s]

\* _route_after_planner that tests time_extraction_needed first.
_route_after_planner_extraction_first(s) ==
    IF s.time_extraction_needed
    THEN [next |-> "codegen", state |-> s]
    ELSE IF s.needs_more /\ s.response # ""
    THEN [next |-> "respond", state |-> s]
    ELSE IF Len(s.plan) = 0 /\ s.response # ""
    THEN [next |-> "respond", state |-> s]
    ELSE IF Len(s.plan) = 0
    THEN [next |-> "respond", state |-> [s EXCEPT !.response = "no_safe_action"]]
    ELSE [next |-> "execute", state |-> s]

\* The routing functions return the next stage and the state as they leave it.
_route_after_planner(s) ==
    IF s.needs_more /\ s.response # ""
    THEN [next |-> "respond", state |-> s]
    ELSE IF s.time_extraction_needed
    THEN [next |-> "codegen", state |-> s]
    ELSE IF Len(s.plan) = 0 /\ s.response # ""
    THEN [next |-> "respond", state |-> s]
    ELSE IF Len(s.plan) = 0
    THEN [next |-> "respond", state |-> [s EXCEPT !.response = "no_safe_action"]]
    ELSE [next |-> "execute", state |-> s]

AnyFailed(results) == \E i \in 1..Len(results) : results[i].ok = FALSE

AllFailed(results) == \A i \in 1..Len(results) : results[i].ok = FALSE

\* check_need_more without the iteration stop.
check_need_more_no_stop(s) ==
    IF s.needs_more /\ s.response # "" /\ s.plan = <<>>
    THEN [s EXCEPT !.needs_more = FALSE, !.fallback_needed = FALSE]
    ELSE IF s.pending_action # None
    THEN [s EXCEPT !.needs_more = FALSE, !.fallback_needed = FALSE]
    ELSE IF s.plan = <<>> /\ s.tool_results = <<>> /\ s.response = ""
    THEN [s EXCEPT !.fallback_needed = TRUE, !.needs_more = FALSE]
    ELSE IF s.last_tool_results # <<>> /\ AnyFailed(s.last_tool_results)
    THEN [s EXCEPT !.needs_more = TRUE]
    ELSE [s EXCEPT !.needs_more = FALSE]

check_need_more(s) ==
    IF s.iterations >= CheckerHardStop
    THEN [s EXCEPT !.needs_more = FALSE]
    ELSE IF s.needs_more /\ s.response # "" /\ s.plan = <<>>
    THEN [s EXCEPT !.needs_more = FALSE, !.fallback_needed = FALSE]
    ELSE IF s.pending_action # None
    THEN [s EXCEPT !.needs_more = FALSE, !.fallback_needed = FALSE]
    ELSE IF s.plan = <<>> /\ s.tool_results = <<>> /\ s.response = ""
    THEN [s EXCEPT !.fallback_needed = TRUE, !.needs_more = FALSE]
    ELSE IF s.last_tool_results # <<>> /\ AnyFailed(s.last_tool_results)
    THEN [s EXCEPT !.needs_more = TRUE]
    ELSE [s EXCEPT !.needs_more = FALSE]

_checker_node(s) ==
    LET out == check_need_more(s)
        results == out.last_tool_results
        unknown_tool == \E i \in 1..Len(results) : results[i].error = "unknown_tool"
    IN  IF results # <<>> /\ (AllFailed(results) \/ unknown_tool)
        THEN [out EXCEPT !.fallback_needed = TRUE]
        ELSE out

_route_after_check(s) ==
    IF s.needs_more THEN "planner"
    ELSE IF s.fallback_needed THEN "codegen"
    ELSE "respond"

\* ------------------------------------------------- codegen, security, sandbox

dynamic_codegen(s) ==
    LET s0 == [s EXCEPT !.generated_code = None, !.code_error = NoneStr,
                        !.code_result = None]
    IN  IF s.code_task = "extract_datetime"
        THEN [s0 EXCEPT !.generated_code = TemplateCode]
        ELSE [s0 EXCEPT !.code_error = "unsupported_code_task"]

ALLOWED_IMPORT_ROOTS == {"json", "datetime", "pytz", "dateparser"}

BANNED_CALLS == {"open", "eval", "exec", "compile", "__import__", "input"}

\* node.attr.startswith("__"), on the attribute names of the model.
IsDunder(a) == a \in {"__class__", "__builtins__", "__subclasses__", "__globals__"}

SecurityViolations ==
    {"code_parse_failed", "violation_import", "violation_call", "violation_dunder"}

security_check(s) ==
    LET code == s.generated_code
    IN  IF code = None
        THEN [s EXCEPT !.code_error = "no_code_generated"]
        ELSE IF ~code.parses
        THEN [s EXCEPT !.code_error = "code_parse_failed"]
        ELSE IF ~(code.imports \subseteq ALLOWED_IMPORT_ROOTS)
        THEN [s EXCEPT !.code_error = "violation_import"]
        ELSE IF code.calls \cap BANNED_CALLS # {}
        THEN [s EXCEPT !.code_error = "violation_call"]
        ELSE IF \E a \in code.attrs : IsDunder(a)
        THEN [s EXCEPT !.code_error = "violation_dunder"]
        ELSE s

\* What the spawned process does: it runs past the 8 seconds, exits non-zero,
\* prints something that is no JSON, prints nothing, or prints one JSON object
\* with both times or with null times.
SandboxOutcomes == {"timeout", "nonzero", "not_json", "empty", "json_both", "json_null"}

\* What a fragment other than the template may print besides, on exit 0: a
\* non-empty JSON array, one JSON object printed over several lines, or two
\* lines with one JSON object each.
FragmentOutcomes ==
    SandboxOutcomes \cup {"json_not_object", "json_object_lines", "json_lines"}

\* The outcomes of the process that runs the code.
ProcessOutcomes(code) ==
    IF code = TemplateCode \/ code = None THEN SandboxOutcomes ELSE FragmentOutcomes

\* json.loads of a non-empty JSON array.
JsonArray == [array |-> TRUE]

\* Whether sandbox_run spawns a process for the code in the state.
Spawns(s) == s.generated_code # None

\* sandbox_run without the increment of code_attempts.
sandbox_run_no_increment(s, outcome) ==
    IF ~Spawns(s)
    THEN [s EXCEPT !.code_error = "no_generated_code_to_run"]
    ELSE [s EXCEPT !.code_error = "sandbox_failed_rc", !.code_result = None]

sandbox_run(s, outcome) ==
    LET s0 == [s EXCEPT !.code_attempts = @ + 1]
        s1 == [s0 EXCEPT !.code_error = NoneStr, !.code_result = None]
    IN  IF ~Spawns(s)
        THEN [s0 EXCEPT !.code_error = "no_generated_code_to_run"]
        ELSE CASE outcome = "timeout" -> [s1 EXCEPT !.code_error = "sandbox_timed_out"]
               [] outcome = "nonzero" -> [s1 EXCEPT !.code_error = "sandbox_failed_rc"]
               [] outcome = "not_json" -> [s1 EXCEPT !.code_error = "sandbox_output_not_json"]
               [] outcome = "json_lines" -> [s1 EXCEPT !.code_error = "sandbox_output_not_json"]
               [] outcome = "empty" -> s1
               [] outcome = "json_not_object" -> [s1 EXCEPT !.code_result = JsonArray]
               [] outcome \in {"json_both", "json_object_lines"} ->
                    [s1 EXCEPT !.code_result = [start_iso |-> "t0", end_iso |-> "t1"]]
               [] OTHER ->
                    [s1 EXCEPT !.code_result = [start_iso |-> NoneStr, end_iso |-> NoneStr]]

_route_after_sandbox(s) ==
    IF s.code_task = "extract_datetime"
    THEN IF s.code_error # NoneStr
         THEN IF s.code_attempts < ExtractRetryLimit
              THEN [next |-> "codegen", state |-> s]
              ELSE [next |-> "respond",
                    state |-> [s EXCEPT !.time_extraction_needed = FALSE,
                                        !.code_task = NoneStr,
                                        !.response = "could_not_extract_after_retries"]]
         \* payload.get on a list raises: the request ends with HTTP 500
         ELSE IF s.code_result = JsonArray
         THEN [next |-> "done", state |-> [s EXCEPT !.response = "http_500"]]
         ELSE IF s.code_result # None /\ s.code_result.start_iso # NoneStr
                 /\ s.code_result.end_iso # NoneStr
         THEN [next |-> "execute",
               state |-> [s EXCEPT !.plan = <<ToolCall("calendar_prepare_event", <<>>)>>,
                                   !.time_extraction_needed = FALSE,
                                   !.code_task = NoneStr,
                                   !.generated_code = None,
                                   !.code_result = None,
                                   !.code_error = NoneStr]]
         ELSE [next |-> "respond",
               state |-> [s EXCEPT !.time_extraction_needed = FALSE,
                                   !.code_task = NoneStr,
                                   !.response = "could_not_extract"]]
    ELSE IF s.code_error = NoneStr
    THEN [next |-> "respond", state |-> s]
    ELSE IF s.code_attempts < SandboxRetryLimit
    THEN [next |-> "codegen", state |-> s]
    ELSE [next |-> "respond", state |-> s]

\* ---------------------------------------------------------------- responder

build_response(s) ==
    LET batch == s.last_tool_results
        last == batch[Len(batch)]
        keep == IF s.response # "" THEN s.response ELSE "completed"
    IN  IF s.pending_action # None /\ ~is_confirm_like(s.input)
        THEN [s EXCEPT !.response = "action_waiting_for_confirmation"]
        ELSE IF s.needs_more /\ s.response # ""
        THEN s
        ELSE IF batch = <<>>
        THEN [s EXCEPT !.response = IF @ # "" THEN @ ELSE "tell_me_what_to_do"]
        ELSE IF AnyFailed(batch)
        THEN [s EXCEPT !.response = "tool_failed"]
        ELSE IF last.tool = "handle_confirmation"
        THEN [s EXCEPT !.response =
                 IF last.already_handled THEN "already_handled_in_another_tab"
                 ELSE IF last.result # "" THEN last.result
                 ELSE "confirmation_processed"]
        ELSE IF last.tool = "calendar_create"
        THEN [s EXCEPT !.response = "created_the_calendar_event"]
        ELSE IF last.tool = "calendar_update_event"
        THEN [s EXCEPT !.response =
                 IF last.result = "pending" THEN "action_waiting_for_confirmation"
                 ELSE "updated_the_calendar_event"]
        ELSE IF last.tool = "calendar_delete_events"
        THEN [s EXCEPT !.response =
                 IF last.result = "pending" THEN "action_waiting_for_confirmation"
                 ELSE "deleted_events"]
        ELSE IF last.tool = "calendar_prepare_event"
        THEN [s EXCEPT !.response = "action_waiting_for_confirmation"]
        ELSE IF last.tool = "gmail_send"
        THEN [s EXCEPT !.response =
                 IF last.result = "pending" THEN "action_waiting_for_confirmation"
                 ELSE "email_sent"]
        ELSE IF last.tool = "gmail_list_important"
        THEN [s EXCEPT !.response = "important_emails"]
        ELSE IF last.tool = "calendar_list_events"
        THEN [s EXCEPT !.response = "events_listing"]
        ELSE IF last.tool = "memory_upsert"
        THEN [s EXCEPT !.response = "saved_preference"]
        ELSE [s EXCEPT !.response = keep]

\* ------------------------------------------------------------ tool handlers

TOOL_REGISTRY ==
    {"handle_confirmation", "gmail_list_important", "gmail_send",
     "calendar_prepare_event", "calendar_list_events", "calendar_update_event",
     "calendar_delete_events", "calendar_get_event", "memory_upsert"}

\* Every gated tool staging a calendar_create.
StagedTypeAlwaysCreate(tool) == "calendar_create"

\* The PendingAction type a gated tool stages.
StagedType(tool) ==
    CASE tool = "gmail_send" -> "gmail_send"
      [] tool = "calendar_prepare_event" -> "calendar_create"
      [] tool = "calendar_update_event" -> "calendar_update"
      [] OTHER -> "calendar_delete_many"

GatedTools ==
    {"gmail_send", "calendar_prepare_event", "calendar_update_event",
     "calendar_delete_events"}

\* What a handler has done when it reaches its next call on the store or on
\* an external service: the state and tables as it leaves them, the result
\* it returns (None while it has not returned), where it goes on, and the
\* memory row it has written (None when it wrote none).
HandlerStep(s, pa, pi, hpc, result) ==
    [state |-> s, pa |-> pa, pi |-> pi, hpc |-> hpc, result |-> result,
     decision |-> "", pending |-> None, staged |-> "", upsert |-> None]

Returned(s, pa, pi, result) == HandlerStep(s, pa, pi, "next", result)

\* The handler leaves by an exception, with the state and tables as they are.
Raised(s, pa, pi) == HandlerStep(s, pa, pi, "raise", None)

\* The except clause of execute_tools without its results.append.
CaughtUnrecorded(tool) == None

\* The except clause of execute_tools: the result recorded for a call whose
\* handler left by an exception.
Caught(tool) == ToolResult(tool, FALSE, "exception", "")

\* _clear_pending_intent_safe: the row and the in-memory copy.
WithoutIntent(s) == [s EXCEPT !.pending_intent = None]

\* The branch of _tool_handle_confirmation, with the decision looked at
\* before the stored action.
ConfirmBranchDecisionFirst(decision, pending) ==
    IF decision = "unknown" THEN "ask"
    ELSE IF pending = None THEN "already_handled"
    ELSE IF decision = "no" THEN "cancel"
    ELSE "perform"

\* The branch of _tool_handle_confirmation that performs whatever is not a no.
ConfirmBranchPerformUnknown(decision, pending) ==
    IF pending = None THEN "already_handled"
    ELSE IF decision = "no" THEN "cancel"
    ELSE "perform"

\* The branch of _tool_handle_confirmation that cancels whatever is not a yes.
ConfirmBranchCancelUnknown(decision, pending) ==
    IF pending = None THEN "already_handled"
    ELSE IF decision = "yes" THEN "perform"
    ELSE "cancel"

\* The branch _tool_handle_confirmation takes.
ConfirmBranch(decision, pending) ==
    IF pending = None THEN "already_handled"
    ELSE IF decision = "unknown" THEN "ask"
    ELSE IF decision = "no" THEN "cancel"
    ELSE "perform"

\* _tool_handle_confirmation up to the call of the external service.
_tool_handle_confirmation(s, pa, pi, call) ==
    LET decision == _parse_confirmation(call.raw)
        pending == get_pending_action(pa, User)
        branch == ConfirmBranch(decision, pending)
    IN  CASE branch = "already_handled" ->
               Returned(WithoutIntent([s EXCEPT !.pending_action = None]),
                        pa, clear_pending_intent(pi, User),
                        [ToolResult("handle_confirmation", TRUE, "", "no_pending_action_anymore")
                            EXCEPT !.already_handled = TRUE])
          [] branch = "ask" ->
               Returned(s, pa, pi,
                        ToolResult("handle_confirmation", FALSE, "reply_yes_or_no", ""))
          [] branch = "cancel" ->
               Returned(WithoutIntent([s EXCEPT !.pending_action = None]),
                        clear_pending_action(pa, User), clear_pending_intent(pi, User),
                        ToolResult("handle_confirmation", TRUE, "", "cancelled_pending_action"))
          [] OTHER ->
               [HandlerStep(s, pa, pi, "perform", None)
                   EXCEPT !.decision = decision, !.pending = pending]

\* _no_meetings_before_minutes giving the hour alone.
_no_meetings_before_minutes_hour_only(s) ==
    LET v == s.memories.no_meetings_before
    IN  IF Len(v) = 2 /\ v[1] \in 0..23 /\ v[2] \in 0..59
        THEN <<v[1]>>
        ELSE <<>>

\* _no_meetings_before_minutes: the limit in minutes of the day, <<>> when
\* the preference is not set or is no HH:MM.
_no_meetings_before_minutes(s) ==
    LET v == s.memories.no_meetings_before
    IN  IF Len(v) = 2 /\ v[1] \in 0..23 /\ v[2] \in 0..59
        THEN <<v[1] * 60 + v[2]>>
        ELSE <<>>

\* _violates_no_meetings_before: a start that does not parse is not blocked.
_violates_no_meetings_before(s, start) ==
    LET limit == _no_meetings_before_minutes(s)
    IN  /\ limit # <<>>
        /\ start.parsed
        /\ start.hour * 60 + start.minute < limit[1]

\* A gated handler that stages an email whatever the tool.
StagingAsEmail(s, pa, pi, call) ==
    [HandlerStep(s, pa, pi, "save_query", None) EXCEPT !.staged = "gmail_send"]

\* The gated handlers up to save_pending_action.  The calendar handlers ask
\* for the Google services first, and that call may raise; gmail_send asks
\* for none.
Staging(s, pa, pi, call) ==
    [HandlerStep(s, pa, pi, "save_query", None) EXCEPT !.staged = StagedType(call.tool)]

_tool_gmail_send_gated(s, pa, pi, call) ==
    IF ~call.args_ok
    THEN Returned(s, pa, pi, ToolResult(call.tool, FALSE, "missing_recipient", ""))
    ELSE Staging(s, pa, pi, call)

_tool_calendar_prepare_event_gated(s, pa, pi, call, env) ==
    IF env = "raise"
    THEN Raised(s, pa, pi)
    ELSE IF ~call.args_ok
    THEN Returned(s, pa, pi, ToolResult(call.tool, FALSE, "missing_start_or_end", ""))
    ELSE IF _violates_no_meetings_before(s, call.start)
    THEN Returned(WithoutIntent(s), pa, clear_pending_intent(pi, User),
                  ToolResult(call.tool, FALSE, "violates_preference", ""))
    ELSE Staging(s, pa, pi, call)

_tool_calendar_update_event_gated(s, pa, pi, call, env) ==
    IF env = "raise"
    THEN Raised(s, pa, pi)
    ELSE IF ~call.args_ok
    THEN Returned(s, pa, pi, ToolResult(call.tool, FALSE, "missing_event_id_or_patch", ""))
    ELSE IF call.start # None /\ _violates_no_meetings_before(s, call.start)
    THEN Returned(WithoutIntent(s), pa, clear_pending_intent(pi, User),
                  ToolResult(call.tool, FALSE, "violates_preference", ""))
    ELSE Staging(s, pa, pi, call)

\* event_ids = args.get("event_ids") or []: a missing value is the empty list.
_tool_calendar_delete_events_gated(s, pa, pi, call, env) ==
    LET event_ids == IF call.ids_kind = "none" THEN <<>> ELSE call.ids
    IN  IF env = "raise"
        THEN Raised(s, pa, pi)
        ELSE IF call.ids_kind = "other" \/ \E k \in 1..Len(event_ids) : event_ids[k] = ""
        THEN Returned(s, pa, pi, ToolResult(call.tool, FALSE, "missing_event_ids", ""))
        ELSE Staging(s, pa, pi, call)

\* gmail_list_important, calendar_get_event.
_tool_read(s, pa, pi, call, env) ==
    IF env = "raise"
    THEN Raised(s, pa, pi)
    ELSE IF ~call.args_ok
    THEN Returned(s, pa, pi, ToolResult(call.tool, FALSE, "missing_argument", ""))
    ELSE Returned(s, pa, pi, ToolResult(call.tool, TRUE, "", "data"))

\* events is what list_events returns.
_tool_calendar_list_events(s, pa, pi, call, env, events) ==
    IF env = "raise"
    THEN Raised(s, pa, pi)
    ELSE IF ~call.args_ok
    THEN Returned(s, pa, pi, ToolResult(call.tool, FALSE, "missing_time_window", ""))
    ELSE Returned(s, pa, pi,
                  [ToolResult(call.tool, TRUE, "", "data") EXCEPT !.events = events])

_tool_memory_upsert(s, pa, pi, call) ==
    IF ~call.args_ok
    THEN Returned(s, pa, pi, ToolResult(call.tool, FALSE, "missing_key_value", ""))
    ELSE [Returned(WithoutIntent([s EXCEPT !.memories =
                                     upsert_memory(@, call.key, call.value)]),
                   pa, clear_pending_intent(pi, User),
                   ToolResult(call.tool, TRUE, "", "saved"))
             EXCEPT !.upsert = [key |-> call.key, value |-> call.value]]

\* The loop body of execute_tools for one call, up to the handler's first
\* call that another request can interleave with.
HandleCall(s, pa, pi, call, env, events) ==
    CASE call.tool \notin TOOL_REGISTRY ->
           Returned(s, pa, pi, ToolResult(call.tool, FALSE, "unknown_tool", ""))
      [] call.tool = "handle_confirmation" -> _tool_handle_confirmation(s, pa, pi, call)
      [] call.tool = "gmail_send" -> _tool_gmail_send_gated(s, pa, pi, call)
      [] call.tool = "calendar_prepare_event" ->
           _tool_calendar_prepare_event_gated(s, pa, pi, call, env)
      [] call.tool = "calendar_update_event" ->
           _tool_calendar_update_event_gated(s, pa, pi, call, env)
      [] call.tool = "calendar_delete_events" ->
           _tool_calendar_delete_events_gated(s, pa, pi, call, env)
      [] call.tool = "calendar_list_events" ->
           _tool_calendar_list_events(s, pa, pi, call, env, events)
      [] call.tool = "memory_upsert" -> _tool_memory_upsert(s, pa, pi, call)
      [] OTHER -> _tool_read(s, pa, pi, call, env)

\* The result the confirmation handler returns for a performed action.
PerformedResult(ptype) ==
    CASE ptype = "calendar_create" -> ToolResult("calendar_create", TRUE, "", "event")
      [] ptype = "gmail_send" -> ToolResult("gmail_send", TRUE, "", "sent")
      [] ptype = "calendar_update" -> ToolResult("calendar_update_event", TRUE, "", "event")
      [] ptype = "calendar_delete_many" -> ToolResult("calendar_delete_events", TRUE, "", "deleted")
      [] OTHER -> ToolResult("handle_confirmation", FALSE, "unknown_pending_action_type", "")

KnownTypes == {"calendar_create", "gmail_send", "calendar_update", "calendar_delete_many"}

\* -------------------------------------------------------------------- state

VARIABLES
    pc,          \* per worker: the stage its request is at
    st,          \* per worker: the AgentState of its request
    ex,          \* per worker: the locals of execute_tools and of the handler it is in
    pa_table,    \* the pending_actions table
    pi_table,    \* the pending_intents table
    performed,   \* per staged action: how often its external write was made
    turns,       \* requests accepted so far
    mem_table,   \* the memories table
    listed       \* the events of the latest listing the calendar gave the user

vars == <<pc, st, ex, pa_table, pi_table, performed, turns, mem_table, listed>>

\* The tools the planning oracle plans with in the model, and the tools of
\* its two-call plans.
OracleTools ==
    {"handle_confirmation", "calendar_list_events", "gmail_send", "calendar_prepare_event"}

PairTools == {"calendar_list_events", "gmail_send"}

\* What a specification lets the planning oracle and the calendar do: the
\* tools of the oracle's plans, whether its calls vary in their arguments, the
\* event lists a listing may return, and whether the history of tool results
\* is kept in full.
World(tools, variants, listings, full) ==
    [tools |-> tools, variants |-> variants, listings |-> listings, full |-> full]

SpecWorld == World(OracleTools, FALSE, {<<>>}, FALSE)

RaceWorld == World({}, FALSE, {<<>>}, FALSE)

\* A staged action is told from the others by an id, which is no part of the
\* program's data.  An id is in use while a row or a worker holds the action;
\* there are enough ids for every row and every copy a worker holds.
MaxIds == 2 * Cardinality(Procs) + 2

IdsIn(x) == IF x = None THEN {} ELSE {x.id}

LiveIds(states, locals, tbl) ==
    UNION {IdsIn(states[w].pending_action) \cup IdsIn(locals[w].pending) : w \in Procs}
    \cup {tbl[i].val.id : i \in 1..Len(tbl)}

FreshId(states, locals, tbl) ==
    CHOOSE i \in 1..MaxIds :
        /\ i \notin LiveIds(states, locals, tbl)
        /\ \A j \in 1..(i - 1) : j \in LiveIds(states, locals, tbl)

\* The counts of the ids in use; the count of an id out of use is forgotten.
Counts(perf, states, locals, tbl) ==
    [i \in 1..MaxIds |-> IF i \in LiveIds(states, locals, tbl) THEN perf[i] ELSE 0]

ExInit ==
    [hpc |-> "none", idx |-> 0, results |-> <<>>, decision |-> "", pending |-> None,
     staged |-> "", found |-> FALSE, outcome |-> None, spawned |-> FALSE,
     threw |-> FALSE, oracle_raised |-> ""]

Init ==
    /\ pc = [w \in Procs |-> "idle"]
    /\ st = [w \in Procs |-> _build_initial_state(<<>>, NoMemories, None, None, FALSE)]
    /\ ex = [w \in Procs |-> ExInit]
    /\ pa_table = <<>>
    /\ pi_table = <<>>
    /\ performed = [i \in 1..MaxIds |-> 0]
    /\ turns = 0
    /\ mem_table = NoMemories
    /\ listed = <<>>

\* ------------------------------------------------------------ entry points

\* agent.invoke(_build_initial_state(db, user_id, message))
StartTurn(w, message, extract, limit) ==
    /\ pc[w] \in {"idle", "done"}
    /\ turns < limit
    /\ turns' = turns + 1
    /\ st' = [st EXCEPT ![w] =
                 _build_initial_state(message, load_memories(mem_table),
                                      get_pending_action(pa_table, User),
                                      get_pending_intent(pi_table, User), extract)]
    /\ ex' = [ex EXCEPT ![w] = ExInit]
    /\ pc' = [pc EXCEPT ![w] = "planner"]
    /\ performed' = Counts(performed, st', ex', pa_table)
    /\ UNCHANGED <<pa_table, pi_table, mem_table, listed>>

\* POST /chat
chat(w, messages, limit) ==
    \E m \in messages : StartTurn(w, m, FALSE, limit)

\* POST /confirm
confirm_action(w, limit) ==
    \E c \in ConfirmTokens : \E i \in Instructions :
        StartTurn(w, ConfirmMessage(c, i), FALSE, limit)

\* A request whose state asks for the datetime-extraction lane.
invoke_extraction(w, limit) == StartTurn(w, MsgSchedule, TRUE, limit)

\* -------------------------------------------------------------- the stages

\* The start times, event id lists and preference values of the calls the
\* planning oracle makes when its calls vary in their arguments.
Starts == {StartAt(8, 30), StartAt(9, 0), Unparsed}

IdLists == {<<>>, <<"e1">>, <<"e1", "">>}

PrefValues == {HHMM(9, 0), HHMM(25, 0), <<9>>}

\* The calls of a tool the oracle makes: one call with every argument there,
\* or the calls over the arguments the handlers and _final_validate read.
OracleCalls(world, t, raw) ==
    LET call == ToolCall(t, IF t = "handle_confirmation" THEN raw ELSE <<>>)
    IN  IF ~world.variants THEN {call}
        ELSE CASE t = "calendar_prepare_event" ->
                    {[call EXCEPT !.start = x] : x \in Starts}
                    \cup {[call EXCEPT !.args_ok = FALSE, !.start = Unparsed]}
               [] t = "calendar_update_event" ->
                    {[call EXCEPT !.start = x] : x \in Starts \cup {None}}
                    \cup {[call EXCEPT !.args_ok = FALSE]}
               [] t = "calendar_delete_events" ->
                    {[call EXCEPT !.ids = x] : x \in IdLists}
                    \cup {[call EXCEPT !.ids_kind = k, !.ids = <<>>] : k \in {"none", "other"}}
               [] t = "memory_upsert" ->
                    {[call EXCEPT !.key = "no_meetings_before", !.value = x] : x \in PrefValues}
                    \cup {[call EXCEPT !.args_ok = FALSE, !.value = <<>>]}
               [] t \in {"gmail_send", "calendar_list_events", "calendar_get_event"} ->
                    {[call EXCEPT !.args_ok = b] : b \in BOOLEAN}
               [] OTHER -> {call}

\* The plans the planning oracle answers with, as _repair_calendar_args
\* leaves them: the empty plan, every plan of one call of the world's tools,
\* the plans of two calls of PairTools, and a listing without its time window.
OraclePlans(world, raw) ==
    LET plain(t) == ToolCall(t, IF t = "handle_confirmation" THEN raw ELSE <<>>)
    IN  {<<>>}
        \cup {<<c>> : c \in UNION {OracleCalls(world, t, raw) : t \in world.tools}}
        \cup {<<plain(t), plain(u)>> :
                 t \in world.tools \cap PairTools, u \in world.tools \cap PairTools}
        \cup {<<[plain("calendar_list_events") EXCEPT !.args_ok = FALSE]>>}

\* What the planning oracle answers.  raised tells whether a call of the
\* oracle raised: the planner's own call or the parse of its answer (kind
\* "error"), or the second call, made for a missing recipient or preference
\* value, which then gives no arguments.
OracleAnswers(world, raw) ==
    {[kind |-> "error", plan |-> <<>>, response |-> "", repaired |-> FALSE, raised |-> TRUE]}
    \cup {[kind |-> "question", plan |-> <<>>, response |-> r, repaired |-> FALSE,
           raised |-> FALSE] : r \in {"", "which_one"}}
    \cup UNION {{[kind |-> "plan", plan |-> p, response |-> "", repaired |-> b[1],
                  raised |-> b[2]] :
                    b \in IF _final_validate(p).err \in {"MISSING_TO_EMAIL", "MISSING_PREF_VALUE"}
                          THEN {<<TRUE, FALSE>>, <<FALSE, FALSE>>, <<FALSE, TRUE>>}
                          ELSE {<<FALSE, FALSE>>}} :
                p \in OraclePlans(world, raw)}
    \cup {[kind |-> "plan", plan |-> <<>>, response |-> "oracle_text", repaired |-> FALSE,
           raised |-> FALSE]}

\* Whether _planner_node gets to the call of the planning oracle: below its
\* hard stop and with no rule of the planner applying.
AsksOracle(s) == s.iterations < PlannerHardStop /\ planner_rules(s) = <<>>

\* The planner stage.  The oracle answers when it is asked; when it is not,
\* there is no answer and the stage reads none.  It is kept, up to the
\* responder, which call of the oracle raised, if one did: the planner's call
\* or the second call.
PlannerNode(w, world) ==
    /\ pc[w] = "planner"
    /\ IF AsksOracle(st[w])
       THEN \E ans \in OracleAnswers(world, st[w].input) :
               LET r == _route_after_planner(planner_oracle(st[w], ans))
               IN  /\ st' = [st EXCEPT ![w] = r.state]
                   /\ pc' = [pc EXCEPT ![w] = r.next]
                   /\ ex' = [ex EXCEPT ![w].oracle_raised =
                                 IF ~ans.raised THEN @
                                 ELSE IF ans.kind = "error" THEN "call"
                                 ELSE "repair_call"]
       ELSE LET r == _route_after_planner(_planner_node(st[w], None))
            IN  /\ st' = [st EXCEPT ![w] = r.state]
                /\ pc' = [pc EXCEPT ![w] = r.next]
                /\ UNCHANGED ex
    /\ UNCHANGED <<pa_table, pi_table, performed, turns, mem_table, listed>>

\* _execute_node up to the loop of execute_tools.
ExecuteNode(w) ==
    /\ pc[w] = "execute"
    /\ ex[w].hpc = "none"
    /\ st' = [st EXCEPT ![w].iterations = @ + 1]
    /\ ex' = [ex EXCEPT ![w].hpc = "next", ![w].idx = 1, ![w].results = <<>>]
    /\ UNCHANGED <<pc, pa_table, pi_table, performed, turns, mem_table, listed>>

\* execute_tools: the next call of the plan is handed to its handler.
Dispatch(w, world) ==
    /\ pc[w] = "execute"
    /\ ex[w].hpc = "next"
    /\ ex[w].idx <= Len(st[w].plan)
    /\ \E env \in {"ok", "raise"}, events \in world.listings :
          LET call == st[w].plan[ex[w].idx]
              h == HandleCall(st[w], pa_table, pi_table, call, env, events)
              threw == h.hpc = "raise"
              result == IF threw THEN Caught(call.tool) ELSE h.result
              hpc == IF threw THEN "next" ELSE h.hpc
          IN  /\ st' = [st EXCEPT ![w] = h.state]
              /\ pa_table' = h.pa
              /\ pi_table' = h.pi
              /\ mem_table' = IF h.upsert = None THEN mem_table
                              ELSE upsert_memory(mem_table, h.upsert.key, h.upsert.value)
              /\ listed' = IF call.tool = "calendar_list_events" /\ ~threw /\ h.result.ok
                           THEN h.result.events ELSE listed
              /\ ex' = [ex EXCEPT ![w].hpc = hpc,
                                  ![w].idx = IF hpc = "next" THEN @ + 1 ELSE @,
                                  ![w].results = IF result # None THEN Append(@, result) ELSE @,
                                  ![w].threw = threw,
                                  ![w].decision = h.decision,
                                  ![w].pending = h.pending,
                                  ![w].staged = h.staged]
    /\ performed' = Counts(performed, st', ex', pa_table')
    /\ UNCHANGED <<pc, turns>>

\* _tool_handle_confirmation, yes: _with_google_services_safe and the call of
\* create_event / send_email / update_event / delete_event.  A raise leaves
\* the handler (execute_tools records it); a failed delete_event is caught
\* inside the loop over the ids.
ConfirmPerform(w) ==
    /\ pc[w] = "execute"
    /\ ex[w].hpc = "perform"
    /\ \E env \in {"ok", "raise", "delete_failed"} :
          LET ptype == ex[w].pending.type
              id == ex[w].pending.id
              written == ptype \in KnownTypes
                         /\ ~(ptype = "calendar_delete_many" /\ env = "delete_failed")
          IN  IF env = "raise"
              THEN /\ ex' = [ex EXCEPT ![w].hpc = "next", ![w].idx = @ + 1,
                                       ![w].results =
                                           IF Caught("handle_confirmation") # None
                                           THEN Append(@, Caught("handle_confirmation"))
                                           ELSE @,
                                       ![w].threw = TRUE,
                                       ![w].pending = None, ![w].decision = ""]
                   /\ performed' = Counts(performed, st, ex', pa_table)
              ELSE /\ ex' = [ex EXCEPT ![w].hpc = "clear",
                                       ![w].outcome = PerformedResult(ptype)]
                   /\ performed' = IF written THEN [performed EXCEPT ![id] = @ + 1]
                                   ELSE performed
    /\ UNCHANGED <<pc, st, pa_table, pi_table, turns, mem_table, listed>>

\* _tool_handle_confirmation, yes: _safe_clear_pending_action and the return.
ConfirmClear(w) ==
    /\ pc[w] = "execute"
    /\ ex[w].hpc = "clear"
    /\ pa_table' = clear_pending_action(pa_table, User)
    /\ st' = [st EXCEPT ![w].pending_action = None]
    /\ ex' = [ex EXCEPT ![w].hpc = "next", ![w].idx = @ + 1,
                        ![w].results = Append(@, ex[w].outcome),
                        ![w].outcome = None, ![w].pending = None, ![w].decision = ""]
    /\ performed' = Counts(performed, st', ex', pa_table')
    /\ UNCHANGED <<pc, pi_table, turns, mem_table, listed>>

\* save_pending_action: the query for the user's row.
SaveQuery(w) ==
    /\ pc[w] = "execute"
    /\ ex[w].hpc = "save_query"
    /\ ex' = [ex EXCEPT ![w].hpc = "save_commit",
                        ![w].found = (first(pa_table, User) # None)]
    /\ UNCHANGED <<pc, st, pa_table, pi_table, performed, turns, mem_table, listed>>

\* save_pending_action: the update or insert and its commit; then the rest of
\* the gated handler.  A failed commit raises out of the handler.
SaveCommit(w) ==
    /\ pc[w] = "execute"
    /\ ex[w].hpc = "save_commit"
    /\ LET tool == st[w].plan[ex[w].idx].tool
           pending == [type |-> ex[w].staged, id |-> FreshId(st, ex, pa_table)]
           r == IF ex[w].found THEN DbUpdate(pa_table, User, pending)
                ELSE DbInsert(pa_table, User, pending)
       IN  IF r.ok
           THEN /\ pa_table' = r.tbl
                /\ pi_table' = clear_pending_intent(pi_table, User)
                /\ st' = [st EXCEPT ![w] = WithoutIntent([st[w] EXCEPT !.pending_action = pending])]
                /\ ex' = [ex EXCEPT ![w].hpc = "next", ![w].idx = @ + 1,
                                    ![w].results = Append(@, ToolResult(tool, TRUE, "", "pending")),
                                    ![w].staged = "", ![w].found = FALSE]
           ELSE /\ ex' = [ex EXCEPT ![w].hpc = "next", ![w].idx = @ + 1,
                                    ![w].results = IF Caught(tool) # None
                                                   THEN Append(@, Caught(tool)) ELSE @,
                                    ![w].threw = TRUE,
                                    ![w].staged = "", ![w].found = FALSE]
                /\ UNCHANGED <<pa_table, pi_table, st>>
    /\ performed' = Counts(performed, st', ex', pa_table')
    /\ UNCHANGED <<pc, turns, mem_table, listed>>

\* The history as the program reads it, in one result: whether it is empty,
\* and the events of its latest successful listing that has any.
Remembered(h) ==
    LET at == {i \in 1..Len(h) :
                  h[i].tool = "calendar_list_events" /\ h[i].ok /\ h[i].events # <<>>}
    IN  IF h = <<>> THEN <<>>
        ELSE IF at = {} THEN <<ToolResult("calendar_list_events", FALSE, "", "")>>
        ELSE <<h[CHOOSE i \in at : \A j \in at : j <= i]>>

\* The end of execute_tools with the batch put in the place of the history.
StoreBatchNoAppend(s, results) ==
    [s EXCEPT !.last_tool_results = results, !.tool_results = results]

\* The end of execute_tools: the batch is the last batch and is added to the
\* history.
StoreBatch(s, results) ==
    [s EXCEPT !.last_tool_results = results, !.tool_results = @ \o results]

\* execute_tools: the loop is over and the batch is stored; the history is
\* kept in full or as the program reads it.
ExecuteReturn(w, world) ==
    /\ pc[w] = "execute"
    /\ ex[w].hpc = "next"
    /\ ex[w].idx > Len(st[w].plan)
    /\ st' = [st EXCEPT ![w] =
                 LET out == StoreBatch(st[w], ex[w].results)
                 IN  IF world.full THEN out
                     ELSE [out EXCEPT !.tool_results = Remembered(@)]]
    /\ ex' = [ex EXCEPT ![w].hpc = "none", ![w].idx = 0, ![w].results = <<>>,
                        ![w].threw = FALSE]
    /\ pc' = [pc EXCEPT ![w] = "check"]
    /\ UNCHANGED <<pa_table, pi_table, performed, turns, mem_table, listed>>

CheckNode(w) ==
    /\ pc[w] = "check"
    /\ LET out == _checker_node(st[w])
       IN  /\ st' = [st EXCEPT ![w] = out]
           /\ pc' = [pc EXCEPT ![w] = _route_after_check(out)]
    /\ UNCHANGED <<ex, pa_table, pi_table, performed, turns, mem_table, listed>>

CodegenNode(w) ==
    /\ pc[w] = "codegen"
    /\ st' = [st EXCEPT ![w] = dynamic_codegen(st[w])]
    /\ pc' = [pc EXCEPT ![w] = "security"]
    /\ ex' = [ex EXCEPT ![w].oracle_raised = ""]
    /\ UNCHANGED <<pa_table, pi_table, performed, turns, mem_table, listed>>

SecurityNode(w) ==
    /\ pc[w] = "security"
    /\ st' = [st EXCEPT ![w] = security_check(st[w])]
    /\ pc' = [pc EXCEPT ![w] = "sandbox"]
    /\ UNCHANGED <<ex, pa_table, pi_table, performed, turns, mem_table, listed>>

SandboxNode(w) ==
    /\ pc[w] = "sandbox"
    /\ \E outcome \in ProcessOutcomes(st[w].generated_code) :
          LET r == _route_after_sandbox(sandbox_run(st[w], outcome))
          IN  /\ st' = [st EXCEPT ![w] = r.state]
              /\ pc' = [pc EXCEPT ![w] = r.next]
    /\ ex' = [ex EXCEPT ![w].spawned = Spawns(st[w])]
    /\ UNCHANGED <<pa_table, pi_table, performed, turns, mem_table, listed>>

\* The responder; what the oracle did is remembered up to here.
RespondNode(w) ==
    /\ pc[w] = "respond"
    /\ st' = [st EXCEPT ![w] = build_response(st[w])]
    /\ pc' = [pc EXCEPT ![w] = "writeback"]
    /\ ex' = [ex EXCEPT ![w].oracle_raised = ""]
    /\ UNCHANGED <<pa_table, pi_table, performed, turns, mem_table, listed>>

\* _apply_pending_intent_writeback: a clear, or the query of save_pending_intent.
Writeback(w) ==
    /\ pc[w] = "writeback"
    /\ ex[w].hpc = "none"
    /\ IF st[w].pending_intent_op = "save" /\ st[w].pending_intent_out # None
       THEN /\ ex' = [ex EXCEPT ![w].hpc = "intent_commit",
                                ![w].found = (first(pi_table, User) # None)]
            /\ UNCHANGED <<pc, pi_table>>
       ELSE /\ pi_table' = IF st[w].pending_intent_op = "clear"
                           THEN clear_pending_intent(pi_table, User)
                           ELSE pi_table
            /\ pc' = [pc EXCEPT ![w] = "done"]
            /\ UNCHANGED ex
    /\ UNCHANGED <<st, pa_table, performed, turns, mem_table, listed>>

\* save_pending_intent: the update or insert and its commit.  A failed commit
\* ends the request with an error and changes no row.
WritebackCommit(w) ==
    /\ pc[w] = "writeback"
    /\ ex[w].hpc = "intent_commit"
    /\ LET r == IF ex[w].found THEN DbUpdate(pi_table, User, st[w].pending_intent_out)
                ELSE DbInsert(pi_table, User, st[w].pending_intent_out)
       IN  pi_table' = r.tbl
    /\ ex' = [ex EXCEPT ![w].hpc = "none", ![w].found = FALSE]
    /\ pc' = [pc EXCEPT ![w] = "done"]
    /\ UNCHANGED <<st, pa_table, performed, turns, mem_table, listed>>

\* One step of the request worker w.
Stage(w, world) ==
    \/ PlannerNode(w, world)
    \/ ExecuteNode(w)
    \/ Dispatch(w, world)
    \/ ConfirmPerform(w)
    \/ ConfirmClear(w)
    \/ SaveQuery(w)
    \/ SaveCommit(w)
    \/ ExecuteReturn(w, world)
    \/ CheckNode(w)
    \/ CodegenNode(w)
    \/ SecurityNode(w)
    \/ SandboxNode(w)
    \/ RespondNode(w)
    \/ Writeback(w)
    \/ WritebackCommit(w)

\* One worker: the requests of the user are served one after the other.
Next ==
    \/ chat(1, ChatMessages, MaxTurns)
    \/ confirm_action(1, MaxTurns)
    \/ invoke_extraction(1, MaxTurns)
    \/ Stage(1, SpecWorld)

Spec == Init /\ [][Next]_vars

\* Two workers: requests of the same user are served at the same time.
RaceMessages == {MsgSendEmail, MsgConfirmYes, MsgConfirmNo, MsgSchedule}

NextRace ==
    \E w \in Procs :
        \/ chat(w, RaceMessages, MaxRaceTurns)
        \/ Stage(w, RaceWorld)

SpecRace == Init /\ [][NextRace]_vars

\* One worker under the scheduling of the graph runtime: a request that has a
\* next stage takes it.
SpecLive == Spec /\ WF_vars(Stage(1, SpecWorld))

\* The security and sandbox stages on any code fragment: the request starts at
\* the security stage with a fragment that may fail to parse, import a root
\* outside the allow-list, call a banned name or read a dunder attribute.
Fragments ==
    {[parses |-> p, imports |-> {"json"} \cup i, calls |-> {"print"} \cup c,
      attrs |-> {"dumps"} \cup a] :
        p \in BOOLEAN, i \in {{}, {"os"}}, c \in {{}, {"open"}}, a \in {{}, {"__class__"}}}

InitFragment ==
    /\ pc = [w \in Procs |-> IF w = 1 THEN "security" ELSE "idle"]
    /\ \E f \in Fragments, extract \in BOOLEAN :
          st = [w \in Procs |->
                  IF w = 1
                  THEN [_build_initial_state(MsgSchedule, NoMemories, None, None, extract)
                           EXCEPT !.generated_code = f]
                  ELSE _build_initial_state(<<>>, NoMemories, None, None, FALSE)]
    /\ ex = [w \in Procs |-> ExInit]
    /\ pa_table = <<>>
    /\ pi_table = <<>>
    /\ performed = [i \in 1..MaxIds |-> 0]
    /\ turns = 1
    /\ mem_table = NoMemories
    /\ listed = <<>>

SpecFragment == InitFragment /\ [][Next]_vars

\* One worker, the planning oracle planning with every tool and with calls
\* that vary in their arguments; the user states a preference, asks for
\* something the oracle plans, or answers yes.
ToolMessages == {MsgSchedule, MsgNoMeetings, <<"yes">>}

ToolsWorld == World(ALLOWED_TOOLS, TRUE, {<<>>}, FALSE)

NextTools ==
    \/ chat(1, ToolMessages, MaxToolTurns)
    \/ Stage(1, ToolsWorld)

SpecTools == Init /\ [][NextTools]_vars

\* One worker; the user lists the meetings, asks to delete one by its title,
\* writes an email or answers yes; the calendar has no event, one, or two.
EvStandup == Event("e1", <<"Standup">>)
EvStandup2 == Event("e2", <<"Standup">>)
EvTeamStandup == Event("e3", <<"Team", "Standup">>)
EvLunch == Event("e4", <<"Lunch">>)

DeleteMessages == {MsgList, MsgDelete, MsgDeleteTomorrow, MsgSendEmail, <<"yes">>}

DeleteWorld ==
    World({"calendar_list_events"}, FALSE, {<<>>, <<EvStandup>>, <<EvStandup, EvLunch>>}, FALSE)

NextDelete ==
    \/ chat(1, DeleteMessages, MaxDeleteTurns)
    \/ Stage(1, DeleteWorld)

SpecDelete == Init /\ [][NextDelete]_vars

\* The planner on any history: the request starts at the planner stage with
\* a request to delete by title and a history that is empty or holds one
\* listing, of no event, of events that match the title or not, or of six
\* that match.
PlannerListings ==
    {<<>>, <<EvStandup>>, <<EvLunch>>, <<EvTeamStandup>>, <<EvStandup, EvStandup2>>,
     <<EvLunch, EvStandup2>>, <<EvStandup, EvTeamStandup, EvLunch>>,
     [k \in 1..6 |-> Event(<<"e1", "e2", "e3", "e4", "e5", "e6">>[k], <<"Standup">>)]}

ListingResult(events) ==
    [ToolResult("calendar_list_events", TRUE, "", "data") EXCEPT !.events = events]

InitPlanner ==
    /\ pc = [w \in Procs |-> IF w = 1 THEN "planner" ELSE "idle"]
    /\ \E m \in {MsgDelete, MsgDeleteTomorrow},
          h \in {<<>>} \cup {<<ListingResult(ev)>> : ev \in PlannerListings} :
          /\ st = [w \in Procs |->
                     IF w = 1
                     THEN [_build_initial_state(m, NoMemories, None, None, FALSE)
                              EXCEPT !.tool_results = h]
                     ELSE _build_initial_state(<<>>, NoMemories, None, None, FALSE)]
          /\ listed = IF h = <<>> THEN <<>> ELSE h[1].events
    /\ ex = [w \in Procs |-> ExInit]
    /\ pa_table = <<>>
    /\ pi_table = <<>>
    /\ performed = [i \in 1..MaxIds |-> 0]
    /\ turns = 1
    /\ mem_table = NoMemories

SpecPlanner == InitPlanner /\ [][NextDelete]_vars

\* One worker, the history of tool results kept in full; the oracle plans
\* listings and emails, one or two calls a plan.
HistoryMessages == {MsgSchedule, <<"yes">>}

HistoryWorld == World({"calendar_list_events", "gmail_send"}, FALSE, {<<EvStandup>>}, TRUE)

NextHistory ==
    \/ chat(1, HistoryMessages, MaxHistoryTurns)
    \/ Stage(1, HistoryWorld)

SpecHistory == Init /\ [][NextHistory]_vars

\* One worker whose user writes the confirmation syntax in front of or behind
\* requests that other rules of the planner match, with and without a staged
\* action; the oracle plans nothing.
ConfirmSyntax == {"CONFIRMATION:", "/confirm"}

SyntaxMessages ==
    {<<m>> \o r : m \in ConfirmSyntax,
                  r \in {<<"yes">>, <<"no">>, MsgSendEmail, MsgNoMeetings, MsgImportant,
                         MsgSchedule}}
    \cup {MsgSendEmail \o <<"/confirm">>}

ConfirmMessages ==
    SyntaxMessages \cup {MsgSendEmail, MsgNoMeetings, MsgNoMeetingsWhen, MsgSchedule}

ConfirmWorld == World({}, FALSE, {<<>>}, FALSE)

NextConfirm ==
    \/ chat(1, ConfirmMessages, MaxConfirmTurns)
    \/ Stage(1, ConfirmWorld)

SpecConfirm == Init /\ [][NextConfirm]_vars

\* One worker whose user states the earliest time for meetings, has a
\* request go through the datetime-extraction lane, or answers yes; the
\* oracle plans nothing.
MsgNoMeetingsLate == <<"no", "meetings", "before", "10:30">>

LaneMessages == {MsgNoMeetings, MsgNoMeetingsLate, <<"yes">>}

LaneWorld == World({}, FALSE, {<<>>}, FALSE)

NextLane ==
    \/ chat(1, LaneMessages, MaxLaneTurns)
    \/ invoke_extraction(1, MaxLaneTurns)
    \/ Stage(1, LaneWorld)

SpecLane == Init /\ [][NextLane]_vars

\* One worker whose user sends a request the planner may ask about, a
\* preference with no time in it, a short answer or an empty message, or has
\* a request go through the datetime-extraction lane; the oracle plans a
\* listing or an email, asks or only answers.
MsgEmpty == <<>>

ClarifyMessages == {MsgEmpty, MsgSchedule, MsgNoMeetingsWhen, <<"yes">>}

ClarifyWorld == World(PairTools, FALSE, {<<>>}, FALSE)

NextClarify ==
    \/ chat(1, ClarifyMessages, MaxClarifyTurns)
    \/ invoke_extraction(1, MaxClarifyTurns)
    \/ Stage(1, ClarifyWorld)

SpecClarify == Init /\ [][NextClarify]_vars

\* Two workers serve one user, who asks for something the oracle plans as
\* one email or as two in one batch, or answers yes.
StagingMessages == {MsgSchedule, <<"yes">>}

StagingWorld == World({"gmail_send"}, FALSE, {<<>>}, FALSE)

NextStaging ==
    \E w \in Procs :
        \/ chat(w, StagingMessages, MaxStagingTurns)
        \/ Stage(w, StagingWorld)

SpecStaging == Init /\ [][NextStaging]_vars

\* One worker whose user asks for an email and replies with any of the bare
\* tokens the planner takes as an answer to a staged action, as it is or
\* with a full stop; the oracle plans nothing.
BareMessages ==
    {MsgSendEmail} \cup BarePhrases \cup {<<"yes.">>, <<"no.">>}

BareWorld == World({}, FALSE, {<<>>}, FALSE)

NextBare ==
    \/ chat(1, BareMessages, MaxBareTurns)
    \/ Stage(1, BareWorld)

SpecBare == Init /\ [][NextBare]_vars

\* execute_tools on any plan: the request starts at the execute stage with a
\* plan of one or two calls, of tools of the registry or of a tool that is
\* not in it; the user may answer yes in a later turn.
UnknownTool == "web_search"

ExecTools == {UnknownTool, "calendar_list_events", "calendar_get_event", "gmail_send"}

ExecPlans ==
    {<<ToolCall(t, <<>>)>> : t \in ExecTools}
    \cup {<<ToolCall(t, <<>>), ToolCall(u, <<>>)>> : t \in ExecTools, u \in ExecTools}

ExecWorld == World({"calendar_list_events"}, FALSE, {<<>>}, FALSE)

InitExecute ==
    /\ pc = [w \in Procs |-> IF w = 1 THEN "execute" ELSE "idle"]
    /\ \E p \in ExecPlans :
          st = [w \in Procs |->
                  IF w = 1
                  THEN _planner_planning(
                           _build_initial_state(MsgSchedule, NoMemories, None, None, FALSE), p)
                  ELSE _build_initial_state(<<>>, NoMemories, None, None, FALSE)]
    /\ ex = [w \in Procs |-> ExInit]
    /\ pa_table = <<>>
    /\ pi_table = <<>>
    /\ performed = [i \in 1..MaxIds |-> 0]
    /\ turns = 1
    /\ mem_table = NoMemories
    /\ listed = <<>>

NextExecute ==
    \/ chat(1, {<<"yes">>}, MaxExecTurns)
    \/ Stage(1, ExecWorld)

SpecExecute == InitExecute /\ [][NextExecute]_vars

\* _planner_node on any turn state: the request starts at the planner stage
\* with the iteration counter below, at or above the hard stop, with the
\* plan and the response of an earlier cycle or none, and with the failed
\* batch that sent it back to the planner; the user may answer yes in a
\* later turn.
HardStopPlans ==
    {<<>>, <<ToolCall("calendar_list_events", <<>>)>>, <<ToolCall("gmail_send", <<>>)>>}

HardStopWorld == World({"calendar_list_events"}, FALSE, {<<>>}, FALSE)

InitHardStop ==
    /\ pc = [w \in Procs |-> IF w = 1 THEN "planner" ELSE "idle"]
    /\ \E p \in HardStopPlans, r \in {"", "oracle_text"},
          i \in {PlannerHardStop - 1, PlannerHardStop, PlannerHardStop + 1} :
          st = [w \in Procs |->
                  IF w = 1
                  THEN [_build_initial_state(MsgSchedule, NoMemories, None, None, FALSE)
                           EXCEPT !.plan = p, !.response = r, !.iterations = i,
                                  !.needs_more = TRUE,
                                  !.last_tool_results =
                                      IF p = <<>> THEN <<>> ELSE <<Caught(p[1].tool)>>,
                                  !.tool_results =
                                      IF p = <<>> THEN <<>> ELSE <<Caught(p[1].tool)>>]
                  ELSE _build_initial_state(<<>>, NoMemories, None, None, FALSE)]
    /\ ex = [w \in Procs |-> ExInit]
    /\ pa_table = <<>>
    /\ pi_table = <<>>
    /\ performed = [i \in 1..MaxIds |-> 0]
    /\ turns = 1
    /\ mem_table = NoMemories
    /\ listed = <<>>

NextHardStop ==
    \/ chat(1, {<<"yes">>}, MaxHardStopTurns)
    \/ Stage(1, HardStopWorld)

SpecHardStop == InitHardStop /\ [][NextHardStop]_vars

\* ------------------------------------------------------------------ claims

\* The worker w returns from the handler of a handle_confirmation call in this step.
ConfirmationReturns(w) ==
    /\ pc[w] = "execute"
    /\ ex[w].hpc \in {"next", "perform", "clear"}
    /\ ex[w].idx <= Len(st[w].plan)
    /\ st[w].plan[ex[w].idx].tool = "handle_confirmation"
    /\ ex'[w].idx = ex[w].idx + 1

\* The action the handler of w's current call works on: the one it read, or
\* the stored one when it has not read yet.
ActionAtHand(w) ==
    IF ex[w].hpc = "next" THEN get_pending_action(pa_table, User) ELSE ex[w].pending

\* C1: an external write (calendar create/update/delete, email send) is made
\* only by the confirmation handler, for the PendingAction stored for the
\* user, and only when the decision parsed from the confirmation is yes; no
\* other handler makes the write.
C1_WritesOnlyOnConfirmedYes ==
    [][\A i \in 1..MaxIds :
          performed'[i] > performed[i] =>
              \E w \in Procs :
                  /\ pc[w] = "execute"
                  /\ ex[w].hpc = "perform"
                  /\ st[w].plan[ex[w].idx].tool = "handle_confirmation"
                  /\ _parse_confirmation(st[w].plan[ex[w].idx].raw) = "yes"
                  /\ ex[w].pending # None
                  /\ ex[w].pending.id = i
                  /\ get_pending_action(pa_table, User) = ex[w].pending]_vars

\* A confirmed action has been performed and is about to be cleared.
C1_Witness ==
    \E w \in Procs : ex[w].hpc = "clear" /\ performed[ex[w].pending.id] = 1

\* The input forms of a confirmation whose decision token is no.
NoForms ==
    {MsgConfirmNo, MsgSlashNo} \cup {ConfirmMessage("no", i) : i \in Instructions}

\* C2: a confirmation whose decision token is no ('CONFIRMATION: no',
\* 'CONFIRMATION: no. <instruction>', '/confirm no') never performs the staged
\* action: its request never reaches the call of the external service.
C2_NoNeverPerforms ==
    \A w \in Procs :
        (pc[w] = "execute" /\ st[w].input \in NoForms) => ex[w].hpc \notin {"perform", "clear"}

C4_IterationsAtMostFive == \A w \in Procs : st[w].iterations <= 5

\* The execute stage has run five times in one request.
C4_Witness == \E w \in Procs : st[w].iterations = 5 /\ pc[w] = "check"

C6_TurnTerminates == (pc[1] = "planner") ~> (pc[1] = "respond")

\* A request has reached respond after five planner cycles and five sandbox attempts.
C6_Witness ==
    pc[1] = "respond" /\ st[1].iterations = 5 /\ st[1].code_attempts = 5

\* C7: a staged action is performed at most once, whatever the interleaving
\* of the confirmations.
C7_PerformedAtMostOnce == \A i \in 1..MaxIds : performed[i] <= 1

\* C8: a confirmation handled while no PendingAction is stored returns a
\* result that is ok and marked already handled, whatever the decision token,
\* makes no external write and leaves the table alone; the response of a
\* request that ends on such a result says so.
C8_AlreadyHandled ==
    /\ [][\A w \in Procs :
            (ConfirmationReturns(w) /\ ActionAtHand(w) = None) =>
                LET r == ex'[w].results[Len(ex'[w].results)]
                IN  /\ r.ok
                    /\ r.already_handled
                    /\ performed' = performed
                    /\ pa_table' = pa_table]_vars
    /\ [](\A w \in Procs :
            (/\ pc[w] = "done"
             /\ st[w].last_tool_results # <<>>
             /\ st[w].last_tool_results[Len(st[w].last_tool_results)].already_handled
             /\ ~AnyFailed(st[w].last_tool_results))
                => st[w].response = "already_handled_in_another_tab")

\* A request with an unrecognised decision token ended already handled.
C8_Witness ==
    \E w \in Procs :
        /\ pc[w] = "done"
        /\ _parse_confirmation(st[w].input) = "unknown"
        /\ is_confirm_like(st[w].input)
        /\ Len(st[w].last_tool_results) = 1
        /\ st[w].last_tool_results[1].already_handled
        /\ st[w].response = "already_handled_in_another_tab"

\* C9: each table holds at most one row per user, also while two requests of
\* the user save at the same time.
C9_AtMostOnePending ==
    /\ Len(RowsOf(pa_table, User)) <= 1
    /\ Len(RowsOf(pi_table, User)) <= 1

\* Two requests have each staged an action and one row is stored.
C9_Witness ==
    /\ Len(pa_table) = 1
    /\ st[1].pending_action # None
    /\ st[2].pending_action # None
    /\ st[1].pending_action # st[2].pending_action

\* C10: when the confirmation handler returns from a yes or a no for a stored
\* PendingAction, no PendingAction is stored for the user, whatever the outcome.
C10_ClearedInEveryOutcome ==
    [][\A w \in Procs :
          (/\ ConfirmationReturns(w)
           /\ ActionAtHand(w) # None
           /\ _parse_confirmation(st[w].plan[ex[w].idx].raw) \in {"yes", "no"})
              => get_pending_action(pa_table', User) = None]_vars

\* The turn of worker 1 answers a bare "yes" and began with a staged
\* calendar_create that it still holds.
YesOnStagedCreate ==
    /\ st[1].input = <<"yes">>
    /\ st[1].pending_action # None
    /\ st[1].pending_action.type = "calendar_create"

\* The last batch of worker 1 holds the result of a performed calendar_create.
CreatePerformed ==
    /\ st[1].input = <<"yes">>
    /\ pc[1] \in {"check", "respond", "writeback", "done"}
    /\ \E k \in 1..Len(st[1].last_tool_results) :
          st[1].last_tool_results[k] = PerformedResult("calendar_create")

\* C11: when a turn has staged a calendar_create and the next input is a bare
\* "yes", the step in which the calendar call returns performs the stored
\* record itself (the record the turn began with), for the first time and
\* once, and nothing else; the step after it deletes the row and empties the
\* turn's pending_action; and from then to the end of the turn no
\* PendingAction is stored and the turn's pending_action, which the output
\* reports, is empty.
C11_StageThenYes ==
    /\ [][YesOnStagedCreate /\ pc[1] = "execute" =>
            /\ (ex[1].hpc = "perform" /\ ex'[1].hpc = "clear") =>
                   /\ ex[1].pending = st[1].pending_action
                   /\ get_pending_action(pa_table, User) = ex[1].pending
                   /\ performed[ex[1].pending.id] = 0
                   /\ performed' = [performed EXCEPT ![ex[1].pending.id] = 1]
                   /\ ex'[1].outcome = PerformedResult("calendar_create")
            /\ (ex[1].hpc = "clear" /\ ex'[1].hpc = "next") =>
                   /\ get_pending_action(pa_table', User) = None
                   /\ st'[1].pending_action = None
                   /\ ex'[1].results = Append(ex[1].results, PerformedResult("calendar_create"))]_vars
    /\ [](CreatePerformed =>
            /\ get_pending_action(pa_table, User) = None
            /\ st[1].pending_action = None)

\* The turn that answered "yes" to a staged calendar_create has ended: the
\* create was performed and no PendingAction is left.
C11_Witness ==
    /\ CreatePerformed
    /\ pc[1] = "done"
    /\ pa_table = <<>>
    /\ st[1].response # ""

\* Worker 1 is in a turn that began with a stored PendingAction and whose
\* input is no confirmation: no batch of tools has run in it.
BlockedTurn ==
    /\ pc[1] \notin {"idle", "done"}
    /\ st[1].iterations = 0
    /\ st[1].pending_action # None
    /\ ~is_confirm_like(st[1].input)
    /\ ~_looks_like_yes_no_only(st[1].input)

\* C12: in a turn that begins with a stored PendingAction and whose input is
\* no confirmation, every step leaves the plan empty, dispatches no handler
\* (the turn goes from the planner to the response and its end, and the
\* locals of execute_tools stay as they are), and leaves the stored
\* PendingAction, the stored PendingClarification and the memories as they
\* are.
C12_PendingBlocksPlanning ==
    [][BlockedTurn =>
          /\ st'[1].plan = <<>>
          /\ pc'[1] \in {"respond", "writeback", "done"}
          /\ ex' = ex
          /\ st'[1].last_tool_results = <<>>
          /\ pa_table' = pa_table
          /\ pi_table' = pi_table
          /\ mem_table' = mem_table
          /\ st'[1].pending_action = st[1].pending_action]_vars

\* A turn that stated a preference while an action was pending has ended:
\* the action is still stored and the preference is not.
C12_Witness ==
    /\ pc[1] = "done"
    /\ st[1].input = MsgNoMeetings
    /\ st[1].pending_action # None
    /\ st[1].iterations = 0
    /\ get_pending_action(pa_table, User) = st[1].pending_action
    /\ mem_table = NoMemories
    /\ st[1].response # ""

\* Worker 1 returns from the handler of a gated call with ok = true in this step.
GatedCallSucceeds ==
    /\ pc[1] = "execute"
    /\ ex[1].hpc \in {"next", "save_commit"}
    /\ ex[1].idx <= Len(st[1].plan)
    /\ st[1].plan[ex[1].idx].tool \in GatedTools
    /\ Len(ex'[1].results) = Len(ex[1].results) + 1
    /\ ex'[1].results[Len(ex'[1].results)].ok

\* C13: when the handler of calendar_prepare_event, calendar_update_event,
\* calendar_delete_events or gmail_send returns ok = true, the stored
\* PendingAction is of the type calendar_create, calendar_update,
\* calendar_delete_many or gmail_send respectively, no PendingClarification
\* is stored or held by the turn, the turn's pending_action is the stored
\* record, and the result carries the name of the tool.
C13_GatedCallStages ==
    [][GatedCallSucceeds =>
          LET tool == st[1].plan[ex[1].idx].tool
              stored == get_pending_action(pa_table', User)
          IN  /\ stored # None
              /\ <<tool, stored.type>> \in
                     {<<"calendar_prepare_event", "calendar_create">>,
                      <<"calendar_update_event", "calendar_update">>,
                      <<"calendar_delete_events", "calendar_delete_many">>,
                      <<"gmail_send", "gmail_send">>}
              /\ get_pending_intent(pi_table', User) = None
              /\ st'[1].pending_intent = None
              /\ st'[1].pending_action = stored
              /\ ex'[1].results[Len(ex'[1].results)].tool = tool]_vars

\* An update was staged in the second turn: the batch holds the ok result
\* of calendar_update_event and the stored action is the update.
C13_Witness ==
    /\ pc[1] = "check"
    /\ st[1].last_tool_results = <<ToolResult("calendar_update_event", TRUE, "", "pending")>>
    /\ get_pending_action(pa_table, User) # None
    /\ get_pending_action(pa_table, User).type = "calendar_update"
    /\ turns = 2
    /\ pi_table = <<>>

\* Worker 1 is about to hand a create call, or an update call that sets a
\* start, to its handler; the stored no-meetings-before preference is an
\* HH:MM and the time of day of the start is earlier.
EarlyCallAtHand ==
    /\ pc[1] = "execute"
    /\ ex[1].hpc = "next"
    /\ ex[1].idx <= Len(st[1].plan)
    /\ LET call == st[1].plan[ex[1].idx]
           v == mem_table.no_meetings_before
       IN  /\ call.tool \in {"calendar_prepare_event", "calendar_update_event"}
           /\ call.start # None
           /\ call.start.parsed
           /\ Len(v) = 2 /\ v[1] \in 0..23 /\ v[2] \in 0..59
           /\ \/ call.start.hour < v[1]
              \/ call.start.hour = v[1] /\ call.start.minute < v[2]

\* C14: with a no-meetings-before HH:MM stored, the handler of a create call,
\* or of an update call that sets a start, whose start is earlier in the day
\* than HH:MM returns ok = false and stages nothing: it does not go on to
\* save_pending_action, and the stored PendingAction and the turn's
\* pending_action stay as they are.
C14_EarlyStartRejected ==
    [][EarlyCallAtHand /\ ex'[1] # ex[1] =>
          /\ ex'[1].hpc = "next"
          /\ ex'[1].idx = ex[1].idx + 1
          /\ Len(ex'[1].results) = Len(ex[1].results) + 1
          /\ ~ex'[1].results[Len(ex'[1].results)].ok
          /\ pa_table' = pa_table
          /\ st'[1].pending_action = st[1].pending_action]_vars

\* A create call at 08:30 was rejected for the stored preference 09:00, and
\* nothing is staged.
C14_Witness ==
    /\ pc[1] = "check"
    /\ mem_table.no_meetings_before = HHMM(9, 0)
    /\ st[1].plan = <<[ToolCall("calendar_prepare_event", <<>>) EXCEPT !.start = StartAt(8, 30)]>>
    /\ st[1].last_tool_results =
          <<ToolResult("calendar_prepare_event", FALSE, "violates_preference", "")>>
    /\ pa_table = <<>>
    /\ st[1].pending_action = None

\* Every argument the tool of the call requires is there and not empty.
Complete(call) ==
    IF call.tool = "calendar_delete_events"
    THEN /\ call.ids_kind = "list"
         /\ call.ids # <<>>
         /\ \A k \in 1..Len(call.ids) : call.ids[k] # ""
    ELSE call.args_ok

\* C15: every call of a plan that is at the execute stage has every argument
\* its tool requires, present and not empty.
C15_DispatchedCallsComplete ==
    pc[1] = "execute" => \A k \in 1..Len(st[1].plan) : Complete(st[1].plan[k])

\* The places of the events of a listing whose title, in lower case, is or
\* contains the given title in lower case.
Matching(events, title) ==
    {k \in 1..Len(events) :
        LET sum == LowerAll(events[k].summary)
            t == LowerAll(title)
        IN  \E i \in 0..(Len(sum) - Len(t)) : SubSeq(sum, i + 1, i + Len(t)) = t}

\* Worker 1 has just left the planner for the first time in a turn that
\* began without a stored PendingAction and whose input names a title to
\* delete.
DeletePlanned ==
    /\ pc[1] \in {"execute", "respond"}
    /\ ex[1].hpc = "none"
    /\ st[1].iterations = 0
    /\ st[1].pending_action = None
    /\ ~is_confirm_like(st[1].input)
    /\ _extract_delete_title(st[1].input) # <<>>

\* The delete call for the event at place k of the listing.
DeleteCallFor(events, k) ==
    [ToolCall("calendar_delete_events", <<>>) EXCEPT !.ids = <<events[k].id>>]

\* C16: when the latest listing the calendar gave the user, in an earlier
\* turn, has exactly one event with the title the input asks to delete, the
\* planner plans the delete call for the id of that event.
C16_DeleteResolvedAcrossTurns ==
    DeletePlanned
        /\ Cardinality(Matching(listed, _extract_delete_title(st[1].input))) = 1
    => \E k \in Matching(listed, _extract_delete_title(st[1].input)) :
          st[1].plan = <<DeleteCallFor(listed, k)>>

\* The events of the latest listing in the history of the turn of worker 1.
LastListing ==
    LET h == st[1].tool_results
        at == {i \in 1..Len(h) : h[i].tool = "calendar_list_events" /\ h[i].ok}
    IN  IF at = {} THEN <<>> ELSE h[CHOOSE i \in at : \A j \in at : j <= i].events

\* The places in that listing of the events the input of worker 1 names.
Named == Matching(LastListing, _extract_delete_title(st[1].input))

\* Worker 1 is past the planner in a turn that asks to delete by title, began
\* without a stored PendingAction and has run no batch of tools since the
\* planner was asked.
DeleteTurn ==
    /\ pc[1] \notin {"idle", "planner"}
    /\ st[1].iterations = 0
    /\ st[1].pending_action = None
    /\ ~is_confirm_like(st[1].input)
    /\ _extract_delete_title(st[1].input) # <<>>

\* The k-th place of a set of places.
Nth(places, k) == CHOOSE i \in places : Cardinality({j \in places : j < i}) = k - 1

\* C17: when more than one event of the listing in the turn's history has
\* the title the input asks to delete, the planner leaves the empty plan,
\* needs_more = true and the question which one to delete, with the matching
\* events in the order of the listing, five at most; the turn goes to its
\* response without dispatching a call, and no PendingAction is stored or
\* held by the turn.
C17_ManyMatchesAsk ==
    DeleteTurn /\ Cardinality(Named) > 1 =>
        /\ st[1].plan = <<>>
        /\ st[1].needs_more
        /\ st[1].response = "which_one_should_i_delete"
        /\ Len(st[1].options) = (IF Cardinality(Named) > 5 THEN 5 ELSE Cardinality(Named))
        /\ \A k \in 1..Len(st[1].options) :
              st[1].options[k] = LastListing[Nth(Named, k)].summary
        /\ pc[1] \in {"respond", "writeback", "done"}
        /\ st[1].last_tool_results = <<>>
        /\ ex[1].results = <<>>
        /\ pa_table = <<>>

\* The turn that asked to delete "Standup" with six events of that title
\* listed has ended with the question and five of them.
C17_Witness ==
    /\ pc[1] = "done"
    /\ DeleteTurn
    /\ Cardinality(Named) = 6
    /\ Len(st[1].options) = 5
    /\ st[1].response = "which_one_should_i_delete"
    /\ pi_table # <<>>

\* No call of the plan of worker 1 is a delete call.
NoDeleteCall ==
    \A k \in 1..Len(st[1].plan) : st[1].plan[k].tool # "calendar_delete_events"

\* C18 as stated: when no event of the listing in the turn's history has the
\* title the input asks to delete, the planner leaves the empty plan,
\* needs_more = true and the prompt to list the meetings first.
C18_ZeroMatchesPrompt ==
    DeleteTurn /\ Named = {} =>
        /\ st[1].plan = <<>>
        /\ st[1].needs_more
        /\ st[1].response = "list_your_meetings_first"

\* C18: when no event of the listing in the turn's history has the title the
\* input asks to delete, the planner plans no delete call; if the input says
\* "tomorrow" it plans the listing of tomorrow itself, with needs_more =
\* false, and has the question which event to delete stored; otherwise it
\* leaves the empty plan, needs_more = true and the prompt to list the
\* meetings first.
C18_ZeroMatchesNoDelete ==
    DeleteTurn /\ Named = {} =>
        /\ NoDeleteCall
        /\ IF HasToken(LowerAll(st[1].input), "tomorrow")
           THEN /\ st[1].plan = <<ToolCall("calendar_list_events", <<>>)>>
                /\ ~st[1].needs_more
                /\ st[1].pending_intent_op = "save"
                /\ st[1].pending_intent_out.last_question = "which_event_should_i_delete"
                /\ pc[1] = "execute"
           ELSE /\ st[1].plan = <<>>
                /\ st[1].needs_more
                /\ st[1].response = "list_your_meetings_first"
                /\ pc[1] \in {"respond", "writeback", "done"}

\* The planner was asked to delete "standup tomorrow" with no such event
\* listed and has planned the listing.
C18_Witness ==
    /\ pc[1] = "execute"
    /\ DeleteTurn
    /\ LastListing = <<EvLunch>>
    /\ st[1].input = MsgDeleteTomorrow
    /\ st[1].plan = <<ToolCall("calendar_list_events", <<>>)>>

\* C19: when exactly one event of the listing in the turn's history has the
\* title the input asks to delete, the planner leaves the plan of the one
\* delete call for the id of that event, needs_more = false, no response and
\* no candidates, and the turn goes to execute.
C19_OneMatchDeletes ==
    DeleteTurn /\ Cardinality(Named) = 1 =>
        /\ st[1].plan = <<DeleteCallFor(LastListing, Nth(Named, 1))>>
        /\ ~st[1].needs_more
        /\ st[1].response = ""
        /\ st[1].options = <<>>
        /\ pc[1] = "execute"

\* The planner was asked to delete "Standup" with a lunch and one standup
\* listed and has planned the delete of the standup.
C19_Witness ==
    /\ pc[1] = "execute"
    /\ DeleteTurn
    /\ LastListing = <<EvLunch, EvStandup2>>
    /\ st[1].input = MsgDelete
    /\ Len(st[1].plan) = 1
    /\ st[1].plan[1].tool = "calendar_delete_events"
    /\ st[1].plan[1].ids = <<"e2">>

\* The result r is a result of the call: it carries the name of the call's
\* tool, or, for a confirmation, the name of the action it performed.
ResultOf(call, r) ==
    \/ r.tool = call.tool
    \/ /\ call.tool = "handle_confirmation"
       /\ r.tool \in {"calendar_create", "gmail_send", "calendar_update_event",
                      "calendar_delete_events"}

\* A request of worker 1 is accepted in this step.
TurnStarts == pc[1] \in {"idle", "done"} /\ pc'[1] = "planner"

\* execute_tools of worker 1 returns in this step.
BatchStored == pc[1] = "execute" /\ pc'[1] = "check"

\* C20: execute_tools hands the calls of the plan to their handlers one
\* after the other, each giving one result; when it returns, the batch has
\* one result per call of the plan, in the order of the plan, is the last
\* batch in the place of the one before, and is added at the end of the
\* history; the history is empty when a turn starts and changes in no other
\* step, so it is the batches of the turn one after the other.
C20_OneResultPerCall ==
    /\ [][pc[1] = "execute" /\ ex'[1].idx # ex[1].idx /\ ex[1].hpc # "none" /\ pc'[1] = "execute" =>
             /\ ex'[1].idx = ex[1].idx + 1
             /\ Len(ex'[1].results) = ex[1].idx
             /\ SubSeq(ex'[1].results, 1, ex[1].idx - 1) = ex[1].results
             /\ ResultOf(st[1].plan[ex[1].idx], ex'[1].results[ex[1].idx])]_vars
    /\ [][BatchStored =>
             /\ Len(st'[1].last_tool_results) = Len(st[1].plan)
             /\ \A k \in 1..Len(st[1].plan) :
                   ResultOf(st[1].plan[k], st'[1].last_tool_results[k])
             /\ st'[1].tool_results = st[1].tool_results \o st'[1].last_tool_results]_vars
    /\ [][TurnStarts => st'[1].tool_results = <<>> /\ st'[1].last_tool_results = <<>>]_vars
    /\ [][~BatchStored /\ ~TurnStarts =>
             /\ st'[1].tool_results = st[1].tool_results
             /\ st'[1].last_tool_results = st[1].last_tool_results]_vars

\* The second batch of a turn is stored: a failed listing, then a listing
\* and a staged email; the history holds the three results in that order.
C20_Witness ==
    /\ pc[1] = "check"
    /\ st[1].iterations = 2
    /\ st[1].last_tool_results =
          <<ListingResult(<<EvStandup>>), ToolResult("gmail_send", TRUE, "", "pending")>>
    /\ st[1].tool_results =
          <<ToolResult("calendar_list_events", FALSE, "exception", "")>>
          \o st[1].last_tool_results

\* The step hands a call of worker 1's plan to its handler, or goes on in the
\* handler of one, and the call is over when the step is.
CallOver ==
    /\ pc[1] = "execute"
    /\ ex[1].hpc # "none"
    /\ ex'[1].idx = ex[1].idx + 1

\* C21: execute_tools never raises.  A call of a tool that is not in the
\* registry and a call whose handler leaves by an exception each add to the
\* batch one result with ok = false that names the call's tool, and the loop
\* goes on with the next call; so when execute_tools returns, the batch has
\* one result for every call of the plan, whatever failed before it.
C21_ExecuteToolsNeverRaises ==
    /\ [][CallOver /\ st[1].plan[ex[1].idx].tool \notin TOOL_REGISTRY =>
             /\ ex'[1].results =
                   Append(ex[1].results,
                          ToolResult(st[1].plan[ex[1].idx].tool, FALSE, "unknown_tool", ""))
             /\ pc'[1] = "execute" /\ ex'[1].hpc = "next"]_vars
    /\ [][CallOver /\ ex'[1].threw =>
             /\ ex'[1].results =
                   Append(ex[1].results,
                          ToolResult(st[1].plan[ex[1].idx].tool, FALSE, "exception", ""))
             /\ pc'[1] = "execute" /\ ex'[1].hpc = "next"]_vars
    /\ [][BatchStored => Len(st'[1].last_tool_results) = Len(st[1].plan)]_vars

\* A batch of two results is stored whose first is the failure of a call of
\* an unknown tool and whose second is the failure of a call whose handler
\* left by an exception.
C21_Witness ==
    /\ pc[1] = "check"
    /\ st[1].last_tool_results =
          <<ToolResult(UnknownTool, FALSE, "unknown_tool", ""),
            ToolResult("calendar_get_event", FALSE, "exception", "")>>

\* A call of the planning oracle by worker 1 raised in this turn and the
\* responder has not run since.
OracleRaised == ex[1].oracle_raised # ""

\* C22 as stated: any exception while calling the planning oracle ends
\* planning for the turn: the planner returns an empty plan, needs_more =
\* false and the diagnostic response, the next stage is respond, and the
\* turn ends after respond without another planner or execute stage.
C22_AnyOracleExceptionEndsPlanning ==
    /\ [][pc[1] = "planner" /\ ex'[1].oracle_raised # "" =>
             /\ st'[1].plan = <<>>
             /\ ~st'[1].needs_more
             /\ st'[1].response = "planner_error"
             /\ pc'[1] = "respond"]_vars
    /\ [](OracleRaised => pc[1] = "respond")
    /\ [][pc[1] \in {"respond", "writeback"} => pc'[1] \in {"respond", "writeback", "done"}]_vars

\* C22: an exception in the planner's own call of the oracle, or in the
\* parse of its answer, ends planning for the turn with an empty plan,
\* needs_more = false and the diagnostic response; an exception in the
\* second call, made for a missing recipient or preference value, ends it
\* with an empty plan, needs_more = true and the question for the missing
\* value, which is saved as the pending intent.  In both cases the next
\* stage is respond, and the turn ends after it without another planner or
\* execute stage: the oracle is not asked again and no tool is dispatched.
C22_OracleExceptionEndsPlanning ==
    /\ [][pc[1] = "planner" /\ ex'[1].oracle_raised = "call" =>
             /\ st'[1].plan = <<>>
             /\ ~st'[1].needs_more
             /\ st'[1].response = "planner_error"
             /\ pc'[1] = "respond"]_vars
    /\ [][pc[1] = "planner" /\ ex'[1].oracle_raised = "repair_call" =>
             /\ st'[1].plan = <<>>
             /\ st'[1].needs_more
             /\ st'[1].response \in {"what_time_should_i_use", "what_email_address"}
             /\ st'[1].pending_intent_op = "save"
             /\ pc'[1] = "respond"]_vars
    /\ [](OracleRaised => pc[1] = "respond")
    /\ [][pc[1] \in {"respond", "writeback"} => pc'[1] \in {"respond", "writeback", "done"}]_vars

\* The planner's call of the oracle raised and the turn is at the respond
\* stage with the diagnostic response.
C22_Witness ==
    /\ ex[1].oracle_raised = "call"
    /\ pc[1] = "respond"
    /\ st[1].response = "planner_error"
    /\ st[1].iterations = 0

\* The sandbox stage of worker 1 runs in the datetime-extraction lane in this
\* step.
LaneSandboxRuns == pc[1] = "sandbox" /\ st[1].code_task = "extract_datetime"

\* The failures of the spawned process: timeout, non-zero exit, output that
\* is no JSON.
SandboxFailures == {"sandbox_timed_out", "sandbox_failed_rc", "sandbox_output_not_json"}

\* C23: in the datetime-extraction lane every run of the sandbox adds one to
\* code_attempts; a run that fails (timeout, non-zero exit, output that is no
\* JSON) goes back to codegen while the counter is below 5, and with the
\* counter at 5 it leaves the lane for respond with the response that asks
\* for an exact date and time; the counter never passes 5 in the lane.
C23_LaneRetriesUpToFive ==
    /\ [][LaneSandboxRuns => st'[1].code_attempts = st[1].code_attempts + 1]_vars
    /\ [][LaneSandboxRuns /\ st'[1].code_error \in SandboxFailures =>
             IF st'[1].code_attempts < 5
             THEN /\ pc'[1] = "codegen"
                  /\ st'[1].code_task = "extract_datetime"
             ELSE /\ st'[1].code_attempts = 5
                  /\ pc'[1] = "respond"
                  /\ st'[1].response = "could_not_extract_after_retries"
                  /\ st'[1].code_task = NoneStr
                  /\ ~st'[1].time_extraction_needed]_vars
    /\ [](st[1].code_task = "extract_datetime" => st[1].code_attempts <= 5)
    /\ [](st[1].code_task = "extract_datetime" /\ pc[1] \in {"codegen", "security", "sandbox"} =>
             st[1].code_attempts < 5)

\* The fifth run of the sandbox in the lane timed out and the turn is at the
\* respond stage with the request for an exact date and time.
C23_Witness ==
    /\ pc[1] = "respond"
    /\ st[1].code_attempts = 5
    /\ st[1].code_error = "sandbox_timed_out"
    /\ st[1].response = "could_not_extract_after_retries"
    /\ st[1].iterations = 0

\* The sandbox stage of worker 1 runs on a fragment for which security_check
\* recorded a violation.
RejectedAtSandbox == pc[1] = "sandbox" /\ st[1].code_error \in SecurityViolations

OneObjectOutcomes == {"json_both", "json_null"}

HasConfirmSyntax ==
    \E i \in 1..Len(st[1].input) : st[1].input[i] \in ConfirmSyntax

\* The planner stage of worker 1 runs in this step.
PlannerRuns == pc[1] = "planner" /\ pc'[1] # "planner"

\* C26: the explicit confirmation syntax wins over every other rule of the
\* planner: whenever the input holds the marker 'CONFIRMATION:' or the
\* slash-command '/confirm', the plan is exactly one handle_confirmation call
\* on the raw input, with needs_more = false and an empty response, whether
\* or not a PendingAction exists and whatever else the input matches, and the
\* oracle is not asked.
C26_ConfirmSyntaxWins ==
    /\ [][PlannerRuns /\ HasConfirmSyntax =>
             /\ st'[1].plan = <<ToolCall("handle_confirmation", st[1].input)>>
             /\ ~st'[1].needs_more
             /\ st'[1].response = ""
             /\ st'[1].pending_intent_op = NoneStr
             /\ pc'[1] = "execute"]_vars
    /\ [](pc[1] = "planner" /\ HasConfirmSyntax => ~AsksOracle(st[1]))

\* The confirmation plan has been made for an input that is also a request to
\* send an email, with a staged action there.
C26_Witness ==
    /\ pc[1] = "execute"
    /\ ex[1].hpc = "none"
    /\ st[1].input = <<"/confirm">> \o MsgSendEmail
    /\ st[1].pending_action # None
    /\ st[1].plan = <<ToolCall("handle_confirmation", st[1].input)>>

\* The check stage of worker 1 runs in this step.
CheckRuns == pc[1] = "check" /\ pc'[1] # "check"

\* C27: if a PendingAction exists when the check stage runs, the stage that
\* follows check is respond, never planner and never codegen, whatever the
\* latest batch of tool results holds.
C27_PendingActionStopsAtCheck ==
    [][CheckRuns /\ st[1].pending_action # None => pc'[1] = "respond"]_vars

\* Every result of the latest batch of worker 1 failed, or one of them is an
\* unknown-tool error.
BatchCallsForFallback ==
    LET batch == st[1].last_tool_results
    IN  /\ batch # <<>>
        /\ \/ \A i \in 1..Len(batch) : ~batch[i].ok
           \/ \E i \in 1..Len(batch) : batch[i].error = "unknown_tool"

\* C28: when every result of the latest batch failed, or one of them is an
\* unknown-tool error, the stage that follows check is codegen, not planner.
C28_FallbackOverridesLoop ==
    [][CheckRuns /\ BatchCallsForFallback => pc'[1] = "codegen"]_vars

\* C29: a tool failure is recovered by one extra planner cycle: within one
\* turn the check stage routes back to planner because of failed results at
\* most once, so a tool that keeps failing is planned and dispatched at most
\* twice.  Every check stage follows one execute stage, which counts it in
\* iterations, and check routes to planner only for a failed result: a route
\* back to planner after the second or a later batch is a second route back,
\* and a third batch is a third dispatch.
C29_OneExtraPlannerCycle ==
    /\ [][CheckRuns /\ pc'[1] = "planner" =>
             /\ AnyFailed(st[1].last_tool_results)
             /\ st[1].iterations <= 1]_vars
    /\ [](st[1].iterations <= 2)

\* C30: when the latest batch holds no failed result and no PendingAction
\* exists, the stage that follows check is respond, whatever happened in the
\* earlier batches of the turn.
C30_CleanBatchResponds ==
    [][(/\ CheckRuns
        /\ ~AnyFailed(st[1].last_tool_results)
        /\ st[1].pending_action = None) => pc'[1] = "respond"]_vars

\* The plan _route_after_sandbox writes after an extraction that gave both
\* times.
LanePlan == <<ToolCall("calendar_prepare_event", <<>>)>>

\* The sandbox stage of worker 1 goes on to execute in this step.
ExtractionSucceeds == pc[1] = "sandbox" /\ pc'[1] = "execute"

StoredIntent == get_pending_intent(pi_table, User)

StoredIntentNext == get_pending_intent(pi_table', User)

\* C32 as stated: while a clarification stays stored, no step changes its
\* original_request, and a save that commits stores the question of its turn
\* as last_question.
C32_OriginalRequestKept ==
    [][/\ (StoredIntent # None /\ StoredIntentNext # None) =>
              StoredIntentNext.original_request = StoredIntent.original_request
       /\ (pc[1] = "writeback" /\ ex[1].hpc = "intent_commit") =>
              /\ StoredIntentNext # None
              /\ StoredIntentNext.last_question = st[1].pending_intent_out.last_question]_vars

\* C32 amended: the original_request is kept when it is not empty; an empty
\* one is replaced by the request of the next turn that asks.
C32_NonEmptyOriginalRequestKept ==
    [][/\ (StoredIntent # None /\ StoredIntentNext # None
            /\ StoredIntent.original_request # <<>>) =>
              StoredIntentNext.original_request = StoredIntent.original_request
       /\ (StoredIntent # None /\ StoredIntentNext # None
            /\ StoredIntent.original_request = <<>>
            /\ StoredIntentNext # StoredIntent) =>
              StoredIntentNext.original_request = st[1].input
       /\ (pc[1] = "writeback" /\ ex[1].hpc = "intent_commit") =>
              /\ StoredIntentNext # None
              /\ StoredIntentNext.last_question = st[1].pending_intent_out.last_question]_vars

\* A second clarification turn has ended: its request is not the first
\* one's, its question is another one, and the stored original_request is
\* still the first request.
C32_Witness ==
    /\ pc[1] = "done"
    /\ turns >= 2
    /\ StoredIntent # None
    /\ StoredIntent.original_request = MsgSchedule
    /\ st[1].input = MsgNoMeetingsWhen
    /\ st[1].pending_intent # None
    /\ st[1].pending_intent.original_request = MsgSchedule
    /\ st[1].pending_intent.last_question # StoredIntent.last_question

\* ---------------------------------------------------------------- C33
\* The turn of worker 1 ends in this step, after its writeback.
TurnEnds == pc[1] = "writeback" /\ pc'[1] = "done"

\* The turn's last plan is not empty and is not the confirmation's.
PlannedTurn == st[1].plan # <<>> /\ st[1].plan[1].tool # "handle_confirmation"

\* The planner's rule for a delete by title with no match and "tomorrow".
DeleteTomorrowListing ==
    /\ _extract_delete_title(st[1].input) # <<>>
    /\ HasToken(LowerAll(st[1].input), "tomorrow")
    /\ st[1].plan = <<ToolCall("calendar_list_events", <<>>)>>

PlannerAsks == pc[1] = "planner" /\ pc'[1] # "planner" /\ st'[1].needs_more

\* C34: when the planner returns with needs_more set, the plan is empty,
\* the response is a question that is not empty, and the next stage is
\* respond: the planner stage itself dispatches nothing and generates no
\* code, and from respond the turn goes to its writeback only.
C34_AskingGoesToRespond ==
    [][/\ PlannerAsks =>
              /\ st'[1].plan = <<>>
              /\ st'[1].response # ""
              /\ pc'[1] = "respond"
              /\ st'[1].tool_results = st[1].tool_results
              /\ st'[1].code_attempts = st[1].code_attempts
              /\ st'[1].generated_code = st[1].generated_code
              /\ performed' = performed
              /\ pa_table' = pa_table
       /\ (pc[1] = "respond" /\ pc'[1] # "respond") =>
              /\ pc'[1] = "writeback"
              /\ st'[1].tool_results = st[1].tool_results
              /\ st'[1].code_attempts = st[1].code_attempts
              /\ performed' = performed]_vars

\* The planner asked in a turn whose state asks for the datetime
\* extraction: the turn is at respond with the question and no code.
C34_Witness ==
    /\ pc[1] = "respond"
    /\ st[1].needs_more
    /\ st[1].time_extraction_needed
    /\ st[1].plan = <<>>
    /\ st[1].response = "which_one"
    /\ st[1].code_attempts = 0
    /\ st[1].generated_code = None

\* ---------------------------------------------------------------- C35
\* The stored action before and after a step.
StoredAction == get_pending_action(pa_table, User)

StoredActionNext == get_pending_action(pa_table', User)

\* The worker w is in the handler of a handle_confirmation call.
InConfirmation(w) ==
    /\ pc[w] = "execute"
    /\ ex[w].idx \in 1..Len(st[w].plan)
    /\ st[w].plan[ex[w].idx].tool = "handle_confirmation"

\* The save of a gated handler of the worker w commits in this step.
StagingCommits(w) ==
    /\ pc[w] = "execute"
    /\ ex[w].hpc = "save_commit"
    /\ Len(ex'[w].results) = Len(ex[w].results) + 1
    /\ ex'[w].results[Len(ex'[w].results)].ok

\* C35 as stated: a stored action is never overwritten; it leaves the store
\* only through the confirmation handler.
C35_NeverOverwritten ==
    [][StoredAction # None =>
          \/ StoredActionNext = StoredAction
          \/ StoredActionNext = None /\ \E w \in Procs : InConfirmation(w)]_vars

\* C35 amended: a stored action leaves the store through the confirmation
\* handler or is replaced by the next action that is staged; a gated call
\* that returns ok leaves its own action as the stored one, whatever was
\* stored before.
C35_ReplacedByNextStaged ==
    [][/\ StoredAction # None =>
              \/ StoredActionNext = StoredAction
              \/ StoredActionNext = None /\ \E w \in Procs : InConfirmation(w)
              \/ \E w \in Procs : StagingCommits(w) /\ ex[w].found
       /\ \A w \in Procs :
              StagingCommits(w) =>
                  /\ StoredActionNext # None
                  /\ StoredActionNext.type = ex[w].staged
                  /\ StoredActionNext = st'[w].pending_action
                  /\ StoredActionNext # StoredAction]_vars

\* A batch of two gated calls has returned: both results are ok and the
\* stored action is the second call's.
C35_Witness ==
    \E w \in Procs :
        /\ pc[w] = "check"
        /\ Len(st[w].plan) = 2
        /\ st[w].plan[1].tool = "gmail_send"
        /\ st[w].plan[2].tool = "gmail_send"
        /\ Len(st[w].last_tool_results) = 2
        /\ st[w].last_tool_results[1].ok
        /\ st[w].last_tool_results[2].ok
        /\ StoredAction # None
        /\ StoredAction = st[w].pending_action
        /\ Len(pa_table) = 1

\* ---------------------------------------------------------------- C36
\* The bare tokens that say yes; the others of BarePhrases say no.
BareYes ==
    {<<"yes">>, <<"y">>, <<"yeah">>, <<"yep">>, <<"confirm">>, <<"ok">>, <<"okay">>,
     <<"sure">>, <<"do", "it">>, <<"send", "it">>, <<"go", "ahead">>, <<"proceed">>}

\* What a bare reply says, its trailing punctuation and its case put aside.
BarePolarity(raw) ==
    LET low == LowerAll(raw)
        t == [low EXCEPT ![Len(low)] = StripTrailing(low[Len(low)])]
    IN  IF t \in BareYes THEN "yes" ELSE "no"

\* The planner of worker 1 returns for a bare reply to a stored action.
BareReplyPlanned ==
    /\ pc[1] = "planner"
    /\ pc'[1] # "planner"
    /\ st[1].pending_action # None
    /\ _looks_like_yes_no_only(st[1].input)

\* C36: every bare token the planner takes as a reply to a stored action is
\* handed to the confirmation handler, which parses it to the decision the
\* token says, never to unknown and never to the opposite one.
C36_BareTokensParse ==
    [][BareReplyPlanned =>
          /\ Len(st'[1].plan) = 1
          /\ st'[1].plan[1].tool = "handle_confirmation"
          /\ _parse_confirmation(st'[1].plan[1].raw) = BarePolarity(st[1].input)]_vars

\* ---------------------------------------------------------------- C37
\* The turn of worker 1 is a confirmation that says neither yes nor no, and
\* an action is stored.
UnrecognisedConfirmation ==
    /\ pc[1] \notin {"idle", "done"}
    /\ st[1].pending_action # None
    /\ StoredAction # None
    /\ st[1].plan # <<>>
    /\ \A i \in 1..Len(st[1].plan) :
           /\ st[1].plan[i].tool = "handle_confirmation"
           /\ _parse_confirmation(st[1].plan[i].raw) = "unknown"

\* The handler of that confirmation returns in this step.
UnrecognisedReturns ==
    /\ UnrecognisedConfirmation
    /\ InConfirmation(1)
    /\ ex[1].hpc = "next"
    /\ ex'[1].idx = ex[1].idx + 1

\* C37: a confirmation that is neither yes nor no, with an action stored,
\* returns ok=false asking for yes or no, and no step of its turn performs
\* an external write or changes the stored action or the stored
\* clarification: the same action is there for a later yes or no.
C37_UnrecognisedChangesNothing ==
    [][/\ UnrecognisedConfirmation =>
              /\ pa_table' = pa_table
              /\ pi_table' = pi_table
              /\ performed' = performed
              /\ mem_table' = mem_table
              /\ st'[1].pending_action = st[1].pending_action
              /\ st'[1].pending_intent = st[1].pending_intent
       /\ UnrecognisedReturns =>
              /\ Len(ex'[1].results) = Len(ex[1].results) + 1
              /\ ex'[1].results[Len(ex'[1].results)].ok = FALSE
              /\ ex'[1].results[Len(ex'[1].results)].error = "reply_yes_or_no"
              /\ ex'[1].hpc = "next"]_vars

\* The turn of such a confirmation has ended: the handler asked for yes or
\* no and the action staged before is still the stored one.
C37_Witness ==
    /\ pc[1] = "done"
    /\ turns >= 2
    /\ is_confirm_like(st[1].input)
    /\ _parse_confirmation(st[1].input) = "unknown"
    /\ st[1].last_tool_results # <<>>
    /\ st[1].last_tool_results[1].tool = "handle_confirmation"
    /\ st[1].last_tool_results[1].error = "reply_yes_or_no"
    /\ StoredAction # None
    /\ StoredAction = st[1].pending_action
    /\ performed = [i \in 1..MaxIds |-> 0]

\* ---------------------------------------------------------------- C38
\* C38: with one turn after the other, no turn ends with both an action and
\* a clarification stored for the user; a step that stages an action leaves
\* no clarification stored, and no writeback saves one while an action is
\* stored.
C38_NeverBothAtTurnEnd ==
    /\ [](pc[1] \in {"idle", "done"} => ~(StoredAction # None /\ StoredIntent # None))
    /\ [][/\ StagingCommits(1) => StoredIntentNext = None
          /\ (pc[1] = "writeback" /\ StoredIntentNext # StoredIntent
               /\ StoredIntentNext # None) => StoredAction = None]_vars

\* A turn that started with a clarification stored is staging an email: the
\* save of the action is at its commit, which clears the clarification.
C38_Witness ==
    /\ pc[1] = "execute"
    /\ turns >= 2
    /\ ex[1].hpc = "save_commit"
    /\ ex[1].staged = "gmail_send"
    /\ st[1].pending_intent # None
    /\ StoredIntent # None
    /\ StoredIntent = st[1].pending_intent
    /\ StoredAction = None

\* ---------------------------------------------------------------- C39
\* The planner stage of worker 1 is entered at or above its hard stop.
AtHardStop == pc[1] = "planner" /\ st[1].iterations >= PlannerHardStop

====
